---- MODULE Spec2Model ----
(***************************************************************************)
(* Model of the xelochat voice client (the useVoiceInput hook, the Home    *)
(* page that drives it, the browser's speech recognizer and synthesizer as *)
(* event sources) and of the server's knowledge-base search.               *)
(*                                                                         *)
(* JavaScript strings are modelled as sequences of one-character strings,  *)
(* so that toLowerCase, includes, trim and split are computed and not      *)
(* assumed.                                                                *)
(***************************************************************************)
EXTENDS Integers, Sequences, FiniteSets, TLC

(***************************************************************************)
(* Bounds of the model.                                                    *)
(***************************************************************************)
\* SpeechRecognition instances created in one run (calls of startListening
\* that reach `new SpeechRecognition()`).
MaxRecognizers == 2
\* Recognizer results (final or interim) delivered in one run.
MaxResults == 2
\* chatMutation.mutate calls in one run.
MaxChats == 1
MaxRecorders == 2
\* Calls of the auth service in one run.
MaxAuthCalls == 3
\* Values Math.random returns to generateToken.
MaxRandom == 1
\* Milliseconds the clock runs beyond the lifetime of a session.
MaxDrift == 1
\* Words in a query given to searchKnowledgeBase.
MaxQueryWords == 2
\* The largest limit given to searchKnowledgeBase (its callers pass 3).
MaxLimit == 3
\* Calls of searchKnowledgeBase in one run.
MaxCalls == 3

(***************************************************************************)
(* Strings.                                                                *)
(***************************************************************************)
UpperChars == <<"A","B","C","D","E","F","G","H","I","J","K","L","M",
                "N","O","P","Q","R","S","T","U","V","W","X","Y","Z">>
LowerChars == <<"a","b","c","d","e","f","g","h","i","j","k","l","m",
                "n","o","p","q","r","s","t","u","v","w","x","y","z">>

UpperSet == {UpperChars[i] : i \in 1..Len(UpperChars)}

\* String.prototype.toLowerCase, one character.
LowerChar(c) ==
    IF c \in UpperSet
    THEN LowerChars[CHOOSE i \in 1..Len(UpperChars) : UpperChars[i] = c]
    ELSE c

\* String.prototype.toLowerCase.
ToLowerCase(s) == [i \in 1..Len(s) |-> LowerChar(s[i])]

\* The characters JavaScript's trim and \s treat as white space (those the
\* model uses).
IsSpace(c) == c \in {" ", "\t", "\n"}

\* String.prototype.includes: t occurs in s as a contiguous substring.
Includes(s, t) ==
    \E i \in 0..(Len(s) - Len(t)) : \A j \in 1..Len(t) : s[i + j] = t[j]

RECURSIVE TrimStart(_)
TrimStart(s) ==
    IF s = <<>> THEN <<>>
    ELSE IF IsSpace(Head(s)) THEN TrimStart(Tail(s)) ELSE s

RECURSIVE TrimEnd(_)
TrimEnd(s) ==
    IF s = <<>> THEN <<>>
    ELSE IF IsSpace(s[Len(s)]) THEN TrimEnd(SubSeq(s, 1, Len(s) - 1)) ELSE s

\* String.prototype.trim.
Trim(s) == TrimEnd(TrimStart(s))

(***************************************************************************)
(* useVoiceInput: constants and the texts it shows.                        *)
(***************************************************************************)
WAKE_WORD == <<"x","e","l","o">>

\* "Listening for 'xelo'..."
ListeningForWakeText ==
    <<"L","i","s","t","e","n","i","n","g"," ","f","o","r"," ",
      "'","x","e","l","o","'",".",".",".">>

\* "Listening..."
ListeningText == <<"L","i","s","t","e","n","i","n","g",".",".",".">>

NotSupportedError == "Speech recognition is not supported in this browser"

\* `Speech recognition error: ${event.error}` for the error codes of the model.
RecognitionErrors == {"Speech recognition error: network"}

NoError == "null"

(***************************************************************************)
(* What the recognizer can deliver.  A result event carries the results     *)
(* from resultIndex on; each result has a transcript and is final or       *)
(* interim.                                                                *)
(***************************************************************************)
Transcripts == { <<"H","i">>, <<"X","e","l","o">> }

InterimTranscripts == { <<"H","i">> }

Results == [transcript : Transcripts, isFinal : {TRUE}]
             \cup [transcript : InterimTranscripts, isFinal : {FALSE}]

ResultEvents == { <<r>> : r \in Results }
                  \cup { <<r1, r2>> : r1 \in Results, r2 \in Results }

RecognizerIds == 1..MaxRecognizers
NoRecognizer == 0

RecorderIds == 1..MaxRecorders
NoRecorder == 0

(***************************************************************************)
(* State.                                                                  *)
(***************************************************************************)
VARIABLES
    \* window.SpeechRecognition || window.webkitSpeechRecognition exists
    speechRecognitionAvailable,
    \* window.speechSynthesis exists
    speechSynthesisAvailable,
    \* useVoiceInput: React state
    isListening, transcript, error, isWaitingForWakeWord,
    \* useVoiceInput: refs
    recognitionRef, accumulatedTranscriptRef, silenceTimeoutRef,
    \* the SpeechRecognition instances created so far, by id: their life cycle
    recognizers,
    \* result events delivered so far
    nResults,
    \* history: the lowercased final transcripts delivered since the last
    \* call of startListening, in order
    finals,
    \* history: the handler that ran last, and the recognizer or chat it ran for
    lastEvent,
    \* history: the last firing of the silence timer: the recognizer that
    \* recognitionRef held and the accumulator, as they were when it fired, and
    \* whether no function of the hook has been called since
    silenceStop,
    \* Home: React state
    conversationState, messages, useFallbackRecording,
    \* Home: the titles of the toasts the mutations' callbacks have shown
    toasts,
    \* Home: transcribeMutation; one entry per mutate call
    transcribes,
    \* useAudioRecorder: React state
    isRecording, recordError,
    \* useAudioRecorder: mediaRecorderRef, as the id of the MediaRecorder it holds
    mediaRecorderRef,
    \* the MediaRecorder instances created so far, by id: their life cycle, and
    \* what became of the promise their onstop handler resolves
    recorders, onstop,
    \* getUserMedia calls of startRecording that have not settled
    mediaRequests,
    \* Home: chatMutation; one entry per mutate call
    chats,
    \* server: the arguments of a call of searchKnowledgeBase, whether it has
    \* returned, and what it returned
    query, limit, searched, searchResult,
    \* server: whether the call passes a limit
    limitGiven,
    \* history: the scores in the call's local `scored`, in corpus order
    scores,
    \* server: the module's knowledgeBase array as it is now, as the positions
    \* its entries had when the module was loaded
    kbOrder,
    \* calls of searchKnowledgeBase made so far
    calls,
    \* history: the calls made with these arguments, and whether each returned
    \* the list the one before it returned
    sameCalls, sameResults,
    \* the terms the latest call of searchKnowledgeBase scored with
    tokens,
    \* history: the latest result event called setTimeout for the silence timer
    rearmed,
    \* history: data.text of the latest transcription response
    transcribed,
    \* server: the arguments of a call of generateResponseWithModel
    userMessage, modelId,
    \* server: process.env, as whether HF_TOKEN, GEMINI_API_KEY and
    \* MISTRAL_API_KEY are set
    env,
    \* what the provider's endpoint does with the request of this call
    outcome,
    \* server: the promise the call returned
    promise,
    \* server: the auth service's users and sessions maps
    users, sessions,
    \* what Date.now() returns
    now,
    \* calls of the auth service made so far, and the latest: its name, its
    \* argument, the time of the call and what it returned
    authCalls, authCall,
    \* history: the tokens loginUser and registerUser have returned, and those
    \* that were passed to logoutUser or that verifyToken found expired
    issued, revoked

hookVars == <<isListening, transcript, error, isWaitingForWakeWord,
              recognitionRef, accumulatedTranscriptRef, silenceTimeoutRef>>
platformVars == <<speechRecognitionAvailable, speechSynthesisAvailable>>
recorderVars == <<isRecording, recordError, mediaRecorderRef, recorders, onstop,
                  mediaRequests>>
pageVars == <<conversationState, messages, useFallbackRecording, chats, toasts,
              transcribes, recorderVars>>
historyVars == <<finals, silenceStop, rearmed, transcribed>>
searchVars == <<query, limit, limitGiven, searched, searchResult, scores,
                kbOrder, calls, sameCalls, sameResults, tokens>>
modelVars == <<userMessage, modelId, env, outcome, promise>>
authVars == <<users, sessions, now, authCalls, authCall, issued, revoked>>
serverVars == <<searchVars, modelVars, authVars>>
vars == <<platformVars, hookVars, recognizers, nResults, historyVars, lastEvent,
          pageVars, serverVars>>

Event(name, id) == [name |-> name, id |-> id]
NoSilenceStop ==
    [recognizer |-> NoRecognizer, accumulated |-> <<>>, undisturbed |-> FALSE]
Disturbed(ss) == [ss EXCEPT !.undisturbed = FALSE]

(***************************************************************************)
(* The life cycle of a SpeechRecognition instance (Web Speech API):        *)
(*   none      not created                                                 *)
(*   starting  start() called, the start event not yet delivered           *)
(*   active    start event delivered; results may follow                   *)
(*   stopping  stop() called; results may still follow, then end           *)
(*   closing   the error event was delivered, or stop() was called before  *)
(*             the start event; only end follows                           *)
(*   ended     end event delivered; nothing follows                        *)
(***************************************************************************)
\* Variant: a stop() that does nothing.
StopRecognizerIgnored(rs, r) == rs

\* recognition.stop(): ignored on an instance that is stopped or being stopped.
StopRecognizer(rs, r) ==
    IF r = NoRecognizer THEN rs
    ELSE IF rs[r] = "active" THEN [rs EXCEPT ![r] = "stopping"]
    ELSE IF rs[r] = "starting" THEN [rs EXCEPT ![r] = "closing"]
    ELSE rs

(***************************************************************************)
(* Home: the effect on [isListening, isRecording].  It runs after a render *)
(* in which one of the two changed, and only ever sets "listening".        *)
(***************************************************************************)
ListeningEffect(cs, wasListening, nowListening) ==
    IF wasListening # nowListening /\ nowListening THEN "listening" ELSE cs

(***************************************************************************)
(* useVoiceInput.stopListening: the hook state it assigns.                 *)
(***************************************************************************)
stopListening ==
    /\ silenceTimeoutRef' = "null"
    /\ recognizers' = StopRecognizer(recognizers, recognitionRef)
    /\ recognitionRef' = NoRecognizer
    /\ isListening' = FALSE
    /\ isWaitingForWakeWord' = FALSE

(***************************************************************************)
(* useVoiceInput.resetTranscript: the hook state it assigns.               *)
(***************************************************************************)
resetTranscript ==
    /\ transcript' = <<>>
    /\ accumulatedTranscriptRef' = <<>>
    /\ isWaitingForWakeWord' = FALSE

(***************************************************************************)
(* useVoiceInput.startListening: the hook state it assigns.  Without the   *)
(* browser facility it reports the error and returns; otherwise it creates *)
(* a recognizer, stores it in recognitionRef and starts it.  It neither    *)
(* looks at isListening nor stops the recognizer recognitionRef holds.     *)
(***************************************************************************)
NextRecognizer == Cardinality({r \in RecognizerIds : recognizers[r] # "none"}) + 1

CanStartListening ==
    speechRecognitionAvailable => NextRecognizer <= MaxRecognizers

\* Variant: startListening without the check for the browser facility.
startListeningUnchecked ==
    /\ accumulatedTranscriptRef' = <<>>
    /\ isWaitingForWakeWord' = TRUE
    /\ finals' = <<>>
    /\ error' = NoError
    /\ recognitionRef' = NextRecognizer
    /\ recognizers' = [recognizers EXCEPT ![NextRecognizer] = "starting"]

startListening ==
    /\ accumulatedTranscriptRef' = <<>>
    /\ isWaitingForWakeWord' = TRUE
    /\ finals' = <<>>
    /\ IF ~speechRecognitionAvailable
       THEN /\ error' = NotSupportedError
            /\ UNCHANGED <<recognitionRef, recognizers>>
       ELSE /\ error' = NoError
            /\ recognitionRef' = NextRecognizer
            /\ recognizers' = [recognizers EXCEPT ![NextRecognizer] = "starting"]

(***************************************************************************)
(* recognition.onresult.  startListening is memoized with useCallback on   *)
(* [stopListening], which never changes, so the handler every recognizer   *)
(* gets is the one built in the hook's first render and the                *)
(* isWaitingForWakeWord it reads is that render's value, useState(false).  *)
(***************************************************************************)
CapturedIsWaitingForWakeWord == FALSE

\* The loop's variables: isWaiting and interimTranscript are its locals, acc is
\* accumulatedTranscriptRef.current, timer is silenceTimeoutRef.current, and
\* wake records that setIsWaitingForWakeWord(false) was called.
LoopStart(acc, timer) ==
    [isWaiting |-> CapturedIsWaitingForWakeWord, interim |-> <<>>,
     acc |-> acc, timer |-> timer, wake |-> FALSE]

\* Variant of the loop body that also adds an interim result to the
\* accumulator.
LoopBodyInterimKept(st, r) ==
    LET resultTranscript == ToLowerCase(r.transcript) IN
    IF ~st.isWaiting
    THEN IF r.isFinal
         THEN [st EXCEPT !.acc = st.acc \o resultTranscript \o <<" ">>,
                         !.timer = "pending"]
         ELSE [st EXCEPT !.acc = st.acc \o resultTranscript,
                         !.interim = st.interim \o resultTranscript]
    ELSE IF r.isFinal /\ Includes(resultTranscript, WAKE_WORD)
         THEN [st EXCEPT !.isWaiting = FALSE, !.wake = TRUE,
                         !.acc = <<>>, !.timer = "pending"]
         ELSE st

\* One pass of the loop body over result r.
LoopBody(st, r) ==
    LET resultTranscript == ToLowerCase(r.transcript) IN
    IF r.isFinal
    THEN IF st.isWaiting /\ Includes(resultTranscript, WAKE_WORD)
         THEN [st EXCEPT !.isWaiting = FALSE, !.wake = TRUE,
                         !.acc = <<>>, !.timer = "pending"]
         ELSE IF ~st.isWaiting
              THEN [st EXCEPT !.acc = st.acc \o resultTranscript \o <<" ">>,
                              !.timer = "pending"]
              ELSE st
    ELSE IF ~st.isWaiting
         THEN [st EXCEPT !.interim = st.interim \o resultTranscript]
         ELSE st

RECURSIVE Loop(_, _)
Loop(st, results) ==
    IF results = <<>> THEN st
    ELSE Loop(LoopBody(st, Head(results)), Tail(results))

\* The display text set after the loop.
DisplayText(st) ==
    IF st.isWaiting THEN ListeningForWakeText
    ELSE IF Trim(st.acc \o st.interim) # <<>> THEN Trim(st.acc \o st.interim)
         ELSE ListeningText

\* The lowercased final transcripts of an event, in order.
RECURSIVE FinalsOf(_)
FinalsOf(results) ==
    IF results = <<>> THEN <<>>
    ELSE (IF Head(results).isFinal
          THEN <<ToLowerCase(Head(results).transcript)>> ELSE <<>>)
         \o FinalsOf(Tail(results))

\* setTimeout is called while the event is handled: the loop leaves a pending
\* timer where there was none.
ArmsTimer(acc, ev) == Loop(LoopStart(acc, "null"), ev).timer = "pending"

RecognitionOnResult(r, ev) ==
    /\ recognizers[r] \in {"active", "stopping"}
    /\ nResults + Len(ev) <= MaxResults
    /\ nResults' = nResults + Len(ev)
    /\ LET st == Loop(LoopStart(accumulatedTranscriptRef, silenceTimeoutRef), ev) IN
        /\ accumulatedTranscriptRef' = st.acc
        /\ silenceTimeoutRef' = st.timer
        /\ isWaitingForWakeWord' = (IF st.wake THEN FALSE ELSE isWaitingForWakeWord)
        /\ transcript' = DisplayText(st)
    /\ finals' = finals \o FinalsOf(ev)
    /\ rearmed' = ArmsTimer(accumulatedTranscriptRef, ev)
    /\ lastEvent' = Event("onresult", r)
    /\ UNCHANGED <<isListening, error, recognitionRef, recognizers,
                   silenceStop, transcribed, platformVars, serverVars, pageVars>>

(***************************************************************************)
(* recognition.onstart.  clearTimeout leaves the handle in the ref.        *)
(***************************************************************************)
ClearedTimer(t) == IF t = "pending" THEN "cleared" ELSE t

RecognitionOnStart(r) ==
    /\ recognizers[r] = "starting"
    /\ recognizers' = [recognizers EXCEPT ![r] = "active"]
    /\ isListening' = TRUE
    /\ isWaitingForWakeWord' = TRUE
    /\ transcript' = ListeningForWakeText
    /\ accumulatedTranscriptRef' = <<>>
    /\ silenceTimeoutRef' = ClearedTimer(silenceTimeoutRef)
    /\ conversationState' = ListeningEffect(conversationState, isListening, TRUE)
    /\ lastEvent' = Event("onstart", r)
    /\ UNCHANGED <<error, recognitionRef, nResults, historyVars, platformVars,
                   serverVars,
                   messages, useFallbackRecording, toasts, chats,
                   transcribes, recorderVars>>

(***************************************************************************)
(* recognition.onerror.                                                    *)
(***************************************************************************)
RecognitionOnError(r, e) ==
    /\ recognizers[r] \in {"starting", "active", "stopping"}
    /\ recognizers' = [recognizers EXCEPT ![r] = "closing"]
    /\ error' = e
    /\ isListening' = FALSE
    /\ isWaitingForWakeWord' = FALSE
    /\ lastEvent' = Event("onerror", r)
    /\ UNCHANGED <<transcript, recognitionRef, accumulatedTranscriptRef,
                   silenceTimeoutRef, nResults, historyVars, platformVars,
                   serverVars,
                   pageVars>>

(***************************************************************************)
(* recognition.onend.                                                      *)
(***************************************************************************)
RecognitionOnEnd(r) ==
    /\ recognizers[r] \in {"active", "stopping", "closing"}
    /\ recognizers' = [recognizers EXCEPT ![r] = "ended"]
    /\ isListening' = FALSE
    /\ isWaitingForWakeWord' = FALSE
    /\ transcript' = Trim(accumulatedTranscriptRef)
    /\ silenceTimeoutRef' = "null"
    /\ lastEvent' = Event("onend", r)
    /\ UNCHANGED <<error, recognitionRef, accumulatedTranscriptRef,
                   nResults, historyVars, platformVars, serverVars, pageVars>>

(***************************************************************************)
(* The silence timer's callback: stopListening().                          *)
(***************************************************************************)
SilenceTimeout ==
    /\ silenceTimeoutRef = "pending"
    /\ stopListening
    /\ silenceStop' = [recognizer |-> recognitionRef,
                       accumulated |-> accumulatedTranscriptRef,
                       undisturbed |-> TRUE]
    /\ lastEvent' = Event("silenceTimeout", recognitionRef)
    /\ UNCHANGED <<rearmed, transcribed, transcript, error, accumulatedTranscriptRef,
                   nResults, finals, platformVars, serverVars, pageVars>>

(***************************************************************************)
(* Home: chatMutation.  One entry of chats per mutate call:                *)
(*   pending    the request is in flight                                   *)
(*   queued     onSuccess awaits playBrowserTTS; the utterance is queued   *)
(*   speaking   the utterance's start event was delivered                  *)
(*   cancelled  a later synth.cancel() removed the utterance; its error    *)
(*              event is still to be delivered                             *)
(*   done       onSuccess/onError and onSettled have run                   *)
(* The mutation stays pending until its callbacks have run, and isPending  *)
(* is that of the latest mutate call.                                      *)
(***************************************************************************)
ChatIds == 1..Len(chats)

chatMutationIsPending == chats # <<>> /\ chats[Len(chats)] # "done"

\* useAudioPlayback's isPlaying: only playAudio sets it, and Home never calls
\* playAudio.
isPlaying == FALSE

\* data.message of the chat response.
ResponseText == <<"o","k">>

UserMessage(text) == [role |-> "user", content |-> text]
AssistantMessage(text) == [role |-> "assistant", content |-> text]

\* synth.cancel(): the utterances queued or speaking are removed.
SynthCancel(cs) ==
    [i \in 1..Len(cs) |-> IF cs[i] \in {"queued", "speaking"} THEN "cancelled" ELSE cs[i]]

\* chatMutation.onSettled.
OnSettled(cs) == IF ~isPlaying THEN "idle" ELSE cs

(***************************************************************************)
(* The chat response arrives: chatMutation.onSuccess up to the await of     *)
(* playBrowserTTS.  Without speechSynthesis the promise resolves at once   *)
(* and the finally block and onSettled run in the same task.               *)
(***************************************************************************)
ChatOnSuccess(i) ==
    /\ chats[i] = "pending"
    /\ messages' = Append(messages, AssistantMessage(ResponseText))
    /\ IF ~speechSynthesisAvailable
       THEN /\ conversationState' = OnSettled("idle")
            /\ chats' = [chats EXCEPT ![i] = "done"]
       ELSE /\ conversationState' = "speaking"
            /\ chats' = [SynthCancel(chats) EXCEPT ![i] = "queued"]
    /\ lastEvent' = Event("chatOnSuccess", i)
    /\ UNCHANGED <<hookVars, recognizers, nResults, historyVars, platformVars,
                   serverVars,
                   useFallbackRecording, toasts,
                   transcribes, recorderVars>>

\* Variant: a failed chat request that leaves the conversation state as it is.
ChatOnErrorKeepsState(i) ==
    /\ chats[i] = "pending"
    /\ chats' = [chats EXCEPT ![i] = "done"]
    /\ toasts' = Append(toasts, "AI Response Error")
    /\ lastEvent' = Event("chatOnError", i)
    /\ UNCHANGED <<hookVars, recognizers, nResults, historyVars, platformVars,
                   serverVars, conversationState, messages, useFallbackRecording,
                   transcribes, recorderVars>>

(***************************************************************************)
(* The chat request fails: chatMutation.onError, then onSettled.           *)
(***************************************************************************)
ChatOnError(i) ==
    /\ chats[i] = "pending"
    /\ conversationState' = OnSettled("idle")
    /\ chats' = [chats EXCEPT ![i] = "done"]
    /\ toasts' = Append(toasts, "AI Response Error")
    /\ lastEvent' = Event("chatOnError", i)
    /\ UNCHANGED <<hookVars, recognizers, nResults, historyVars, platformVars,
                   serverVars,
                   messages, useFallbackRecording,
                   transcribes, recorderVars>>

(***************************************************************************)
(* playBrowserTTS: the utterance's events.  onend and onerror set idle and *)
(* resolve; the finally block of onSuccess and onSettled follow in the     *)
(* same task.                                                              *)
(***************************************************************************)
UtteranceOnStart(i) ==
    /\ chats[i] = "queued"
    /\ chats' = [chats EXCEPT ![i] = "speaking"]
    /\ conversationState' = "speaking"
    /\ lastEvent' = Event("utteranceOnStart", i)
    /\ UNCHANGED <<hookVars, recognizers, nResults, historyVars, platformVars,
                   serverVars,
                   messages, useFallbackRecording, toasts,
                   transcribes, recorderVars>>

UtteranceOnEnd(i) ==
    /\ chats[i] = "speaking"
    /\ chats' = [chats EXCEPT ![i] = "done"]
    /\ conversationState' = OnSettled("idle")
    /\ lastEvent' = Event("utteranceOnEnd", i)
    /\ UNCHANGED <<hookVars, recognizers, nResults, historyVars, platformVars,
                   serverVars,
                   messages, useFallbackRecording, toasts,
                   transcribes, recorderVars>>

UtteranceOnError(i) ==
    /\ chats[i] \in {"queued", "speaking", "cancelled"}
    /\ chats' = [chats EXCEPT ![i] = "done"]
    /\ conversationState' = OnSettled("idle")
    /\ lastEvent' = Event("utteranceOnError", i)
    /\ UNCHANGED <<hookVars, recognizers, nResults, historyVars, platformVars,
                   serverVars,
                   messages, useFallbackRecording, toasts,
                   transcribes, recorderVars>>

(***************************************************************************)
(* useAudioRecorder.  The life cycle of a MediaRecorder:                   *)
(*   none       not created                                                *)
(*   recording  created and started when getUserMedia resolved             *)
(*   stopping   stop() called; the stop event is still to be delivered     *)
(*   inactive   the stop event was delivered                               *)
(* onstop is what the recorder's onstop handler will do with the promise   *)
(* of the stopRecording call that installed it:                            *)
(*   none  no handler installed                                            *)
(*   live  resolve it; handleStopListening, which awaits it, goes on       *)
(*   dead  nothing: stop() threw in that call and the promise is rejected  *)
(***************************************************************************)
NextRecorder == Cardinality({r \in RecorderIds : recorders[r] # "none"}) + 1

CanStartRecording == NextRecorder + mediaRequests <= MaxRecorders

RecordingErrors == { "Permission denied" }

\* startRecording up to the await of getUserMedia.
startRecording ==
    /\ CanStartRecording
    /\ recordError' = NoError
    /\ mediaRequests' = mediaRequests + 1
    /\ UNCHANGED <<isRecording, mediaRecorderRef, recorders, onstop>>

\* getUserMedia resolved: the rest of startRecording.  The recorder that
\* mediaRecorderRef held, if any, is left as it is.
GetUserMediaResolves ==
    /\ mediaRequests > 0
    /\ mediaRequests' = mediaRequests - 1
    /\ mediaRecorderRef' = NextRecorder
    /\ recorders' = [recorders EXCEPT ![NextRecorder] = "recording"]
    /\ isRecording' = TRUE
    /\ conversationState' = ListeningEffect(conversationState, isRecording, TRUE)
    /\ lastEvent' = Event("getUserMediaResolves", NextRecorder)
    /\ UNCHANGED <<recordError, onstop, hookVars, recognizers, nResults,
                   historyVars, platformVars, serverVars, messages,
                   useFallbackRecording, chats, toasts, transcribes>>

\* getUserMedia rejected: the catch block of startRecording.
GetUserMediaRejects(e) ==
    /\ mediaRequests > 0
    /\ mediaRequests' = mediaRequests - 1
    /\ recordError' = e
    /\ isRecording' = FALSE
    /\ lastEvent' = Event("getUserMediaRejects", 0)
    /\ UNCHANGED <<mediaRecorderRef, recorders, onstop, hookVars, recognizers,
                   nResults, historyVars, platformVars, serverVars,
                   conversationState, messages, useFallbackRecording, chats,
                   toasts, transcribes>>

\* What stop() does to the recorder.
StopRecorder(rs, r) ==
    IF rs[r] = "recording" THEN [rs EXCEPT ![r] = "stopping"] ELSE rs

\* The onstop handlers after stopRecording on recorder r.  The call replaces
\* the handler.  stop() on a recorder that is not recording either throws
\* (the promise is rejected and the handler can no longer resolve it) or
\* returns, depending on the browser.
OnstopAfterStop(h, rs, r) ==
    IF rs[r] = "recording" THEN { [h EXCEPT ![r] = "live"] }
    ELSE { [h EXCEPT ![r] = "live"], [h EXCEPT ![r] = "dead"] }

(***************************************************************************)
(* Home.handleStartListening: the recorder when useFallbackRecording, the  *)
(* recognizer otherwise.                                                   *)
(***************************************************************************)
handleStartListening ==
    /\ IF useFallbackRecording
       THEN /\ startRecording
            /\ UNCHANGED <<error, recognitionRef, accumulatedTranscriptRef,
                           isWaitingForWakeWord, recognizers, finals>>
       ELSE /\ CanStartListening
            /\ startListening
            /\ UNCHANGED recorderVars
    /\ lastEvent' = Event("handleStartListening", 0)
    /\ silenceStop' = Disturbed(silenceStop)
    /\ UNCHANGED <<rearmed, transcribed, isListening, transcript, silenceTimeoutRef, nResults,
                   platformVars, serverVars, conversationState, messages,
                   useFallbackRecording, chats, toasts, transcribes>>

(***************************************************************************)
(* Home.handleStopListening.  With the recorder: up to the await of        *)
(* stopRecording, which resolves null at once when no recorder was ever    *)
(* created.  With the recognizer: transcript is the hook's state as last   *)
(* rendered.                                                               *)
(***************************************************************************)
handleStopListening ==
    /\ IF useFallbackRecording
       THEN /\ IF mediaRecorderRef = NoRecorder
               THEN /\ conversationState' = "idle"
                    /\ UNCHANGED <<recorders, onstop>>
               ELSE /\ recorders' = StopRecorder(recorders, mediaRecorderRef)
                    /\ onstop' \in OnstopAfterStop(onstop, recorders, mediaRecorderRef)
                    /\ UNCHANGED conversationState
            /\ UNCHANGED <<isRecording, recordError, mediaRecorderRef, mediaRequests,
                           hookVars, recognizers, messages, chats>>
       ELSE /\ stopListening
            /\ IF Trim(transcript) # <<>>
               THEN /\ Len(chats) < MaxChats
                    /\ messages' = Append(messages, UserMessage(Trim(transcript)))
                    /\ conversationState' = "processing"
                    /\ chats' = Append(chats, "pending")
                    /\ resetTranscript
               ELSE /\ conversationState' = "idle"
                    /\ UNCHANGED <<transcript, accumulatedTranscriptRef, messages, chats>>
            /\ UNCHANGED <<error, recorderVars>>
    /\ lastEvent' = Event("handleStopListening", 0)
    /\ silenceStop' = Disturbed(silenceStop)
    /\ UNCHANGED <<rearmed, transcribed, nResults, finals, platformVars, serverVars,
                   useFallbackRecording, toasts, transcribes>>

(***************************************************************************)
(* The recorder's stop event: the onstop handler, and then the rest of the *)
(* handleStopListening call that awaits its promise.  The recording is a   *)
(* Blob, which is never null.                                              *)
(***************************************************************************)
RecorderOnStop(r) ==
    /\ recorders[r] = "stopping"
    /\ recorders' = [recorders EXCEPT ![r] = "inactive"]
    /\ onstop' = [onstop EXCEPT ![r] = "none"]
    /\ isRecording' = FALSE
    /\ IF onstop[r] = "live"
       THEN /\ conversationState' = "processing"
            /\ transcribes' = Append(transcribes, "pending")
       ELSE UNCHANGED <<conversationState, transcribes>>
    /\ lastEvent' = Event("recorderOnStop", r)
    /\ UNCHANGED <<recordError, mediaRecorderRef, mediaRequests, hookVars,
                   recognizers, nResults, historyVars, platformVars, serverVars,
                   messages, useFallbackRecording, chats, toasts>>

(***************************************************************************)
(* Home: transcribeMutation.  One entry of transcribes per mutate call:    *)
(* pending or done.  onSettled reads conversationState and                 *)
(* chatMutation.isPending as last rendered, that is as they were before    *)
(* onSuccess or onError ran.                                               *)
(***************************************************************************)
TranscribeIds == 1..Len(transcribes)

transcribeMutationIsPending ==
    transcribes # <<>> /\ transcribes[Len(transcribes)] # "done"

\* data.text of the transcription response.
Transcriptions == { <<>>, <<" ">>, <<"H","i">> }

\* transcribeMutation.onSettled after a callback that left the state cs.
TranscribeOnSettled(cs) ==
    IF conversationState = "processing" /\ ~chatMutationIsPending THEN "idle" ELSE cs

TranscribeOnSuccess(i, text) ==
    /\ transcribes[i] = "pending"
    /\ transcribes' = [transcribes EXCEPT ![i] = "done"]
    /\ IF Trim(text) # <<>>
       THEN /\ Len(chats) < MaxChats
            /\ messages' = Append(messages, UserMessage(Trim(text)))
            /\ chats' = Append(chats, "pending")
            /\ conversationState' = TranscribeOnSettled("processing")
       ELSE /\ conversationState' = TranscribeOnSettled("idle")
            /\ UNCHANGED <<messages, chats>>
    /\ transcribed' = text
    /\ lastEvent' = Event("transcribeOnSuccess", i)
    /\ UNCHANGED <<hookVars, recognizers, nResults, finals, silenceStop, rearmed,
                   platformVars,
                   serverVars, useFallbackRecording, toasts, recorderVars>>

TranscribeOnError(i) ==
    /\ transcribes[i] = "pending"
    /\ transcribes' = [transcribes EXCEPT ![i] = "done"]
    /\ toasts' = Append(toasts, "Transcription Error")
    /\ conversationState' = TranscribeOnSettled("idle")
    /\ lastEvent' = Event("transcribeOnError", i)
    /\ UNCHANGED <<hookVars, recognizers, nResults, historyVars, platformVars,
                   serverVars, messages, useFallbackRecording, chats,
                   recorderVars>>

(***************************************************************************)
(* The controls.  VoiceButton is disabled while a mutation is pending or   *)
(* the state is processing or speaking, and stops when the state is        *)
(* listening.  HelpOverlay shows Start while the hook is not listening and *)
(* Stop while it is, whatever the conversation state.                      *)
(***************************************************************************)
VoiceButtonDisabled ==
    \/ chatMutationIsPending
    \/ transcribeMutationIsPending
    \/ conversationState \in {"processing", "speaking"}

VoiceButtonClick ==
    /\ ~VoiceButtonDisabled
    /\ IF conversationState = "listening"
       THEN handleStopListening
       ELSE handleStartListening

HelpOverlayStart ==
    /\ ~isListening
    /\ handleStartListening

HelpOverlayStop ==
    /\ isListening
    /\ handleStopListening

(***************************************************************************)
(* The server's knowledge base (consultant-kb): the entries' id, category, *)
(* title, content and keywords.  relatedTopics is not read by the search.  *)
(***************************************************************************)
knowledgeBase == <<
  \* exp-1: "Digital Transformation Strategy"
  [id |-> "exp-1", category |-> "expertise",
   title |->
     <<"D","i","g","i","t","a","l"," ","T","r","a","n","s","f","o","r","m",
       "a","t","i","o","n"," ","S","t","r","a","t","e","g","y">>,
   content |->
     <<"D","i","g","i","t","a","l"," ","t","r","a","n","s","f","o","r","m",
       "a","t","i","o","n"," ","i","s"," ","t","h","e"," ","i","n","t","e",
       "g","r","a","t","i","o","n"," ","o","f"," ","d","i","g","i","t","a",
       "l"," ","t","e","c","h","n","o","l","o","g","y"," ","i","n","t","o",
       " ","a","l","l"," ","a","r","e","a","s"," ","o","f"," ","b","u","s",
       "i","n","e","s","s"," ","o","p","e","r","a","t","i","o","n","s",".",
       " ","I"," ","h","e","l","p"," ","o","r","g","a","n","i","z","a","t",
       "i","o","n","s",":","\n"," "," "," "," ","-"," ","A","s","s","e","s",
       "s"," ","c","u","r","r","e","n","t"," ","d","i","g","i","t","a","l",
       " ","m","a","t","u","r","i","t","y","\n"," "," "," "," ","-"," ","D",
       "e","v","e","l","o","p"," ","c","o","m","p","r","e","h","e","n","s",
       "i","v","e"," ","t","r","a","n","s","f","o","r","m","a","t","i","o",
       "n"," ","r","o","a","d","m","a","p","s","\n"," "," "," "," ","-"," ",
       "I","m","p","l","e","m","e","n","t"," ","c","l","o","u","d","-","f",
       "i","r","s","t"," ","s","t","r","a","t","e","g","i","e","s","\n"," ",
       " "," "," ","-"," ","M","o","d","e","r","n","i","z","e"," ","l","e",
       "g","a","c","y"," ","s","y","s","t","e","m","s","\n"," "," "," "," ",
       "-"," ","B","u","i","l","d"," ","d","a","t","a","-","d","r","i","v",
       "e","n"," ","d","e","c","i","s","i","o","n"," ","p","r","o","c","e",
       "s","s","e","s","\n"," "," "," "," ","-"," ","E","n","h","a","n","c",
       "e"," ","c","u","s","t","o","m","e","r"," ","e","x","p","e","r","i",
       "e","n","c","e"," ","t","h","r","o","u","g","h"," ","d","i","g","i",
       "t","a","l"," ","c","h","a","n","n","e","l","s">>,
   keywords |-> <<
     <<"d","i","g","i","t","a","l"," ","t","r","a","n","s","f","o","r","m",
       "a","t","i","o","n">>,
     <<"m","o","d","e","r","n","i","z","a","t","i","o","n">>,
     <<"c","l","o","u","d">>,
     <<"d","i","g","i","t","a","l"," ","s","t","r","a","t","e","g","y">>,
     <<"t","e","c","h","n","o","l","o","g","y">> >>],
  \* exp-2: "AI & Machine Learning Implementation"
  [id |-> "exp-2", category |-> "expertise",
   title |->
     <<"A","I"," ","&"," ","M","a","c","h","i","n","e"," ","L","e","a","r",
       "n","i","n","g"," ","I","m","p","l","e","m","e","n","t","a","t","i",
       "o","n">>,
   content |->
     <<"I"," ","s","p","e","c","i","a","l","i","z","e"," ","i","n"," ","p",
       "r","a","c","t","i","c","a","l"," ","A","I","/","M","L"," ","i","m",
       "p","l","e","m","e","n","t","a","t","i","o","n"," ","f","o","r"," ",
       "b","u","s","i","n","e","s","s"," ","v","a","l","u","e",":","\n"," ",
       " "," "," ","-"," ","I","d","e","n","t","i","f","y","i","n","g"," ",
       "h","i","g","h","-","i","m","p","a","c","t"," ","u","s","e"," ","c",
       "a","s","e","s"," ","f","o","r"," ","A","I","\n"," "," "," "," ","-",
       " ","D","a","t","a"," ","s","t","r","a","t","e","g","y"," ","a","n",
       "d"," ","g","o","v","e","r","n","a","n","c","e","\n"," "," "," "," ",
       "-"," ","M","o","d","e","l"," ","d","e","v","e","l","o","p","m","e",
       "n","t"," ","a","n","d"," ","d","e","p","l","o","y","m","e","n","t",
       "\n"," "," "," "," ","-"," ","M","L","O","p","s"," ","a","n","d"," ",
       "m","o","d","e","l"," ","m","o","n","i","t","o","r","i","n","g","\n",
       " "," "," "," ","-"," ","A","I"," ","e","t","h","i","c","s"," ","a",
       "n","d"," ","r","e","s","p","o","n","s","i","b","l","e"," ","A","I",
       " ","p","r","a","c","t","i","c","e","s","\n"," "," "," "," ","-"," ",
       "B","u","i","l","d","i","n","g"," ","i","n","-","h","o","u","s","e",
       " ","d","a","t","a"," ","s","c","i","e","n","c","e"," ","c","a","p",
       "a","b","i","l","i","t","i","e","s","\n"," "," "," "," ","-"," ","F",
       "r","o","m"," ","p","r","o","o","f","-","o","f","-","c","o","n","c",
       "e","p","t"," ","t","o"," ","p","r","o","d","u","c","t","i","o","n",
       " ","s","y","s","t","e","m","s">>,
   keywords |-> <<
     <<"A","I">>,
     <<"m","a","c","h","i","n","e"," ","l","e","a","r","n","i","n","g">>,
     <<"M","L">>,
     <<"d","e","e","p"," ","l","e","a","r","n","i","n","g">>,
     <<"n","e","u","r","a","l"," ","n","e","t","w","o","r","k","s">>,
     <<"d","a","t","a"," ","s","c","i","e","n","c","e">>,
     <<"m","o","d","e","l","s">> >>],
  \* exp-3: "Cloud Architecture & Migration"
  [id |-> "exp-3", category |-> "expertise",
   title |->
     <<"C","l","o","u","d"," ","A","r","c","h","i","t","e","c","t","u","r",
       "e"," ","&"," ","M","i","g","r","a","t","i","o","n">>,
   content |->
     <<"E","x","p","e","r","t"," ","g","u","i","d","a","n","c","e"," ","o",
       "n"," ","c","l","o","u","d"," ","i","n","f","r","a","s","t","r","u",
       "c","t","u","r","e"," ","a","n","d"," ","m","i","g","r","a","t","i",
       "o","n",":","\n"," "," "," "," ","-"," ","M","u","l","t","i","-","c",
       "l","o","u","d"," ","a","n","d"," ","h","y","b","r","i","d"," ","c",
       "l","o","u","d"," ","s","t","r","a","t","e","g","i","e","s","\n"," ",
       " "," "," ","-"," ","A","W","S",","," ","G","o","o","g","l","e"," ",
       "C","l","o","u","d",","," ","A","z","u","r","e"," ","e","x","p","e",
       "r","t","i","s","e","\n"," "," "," "," ","-"," ","M","i","c","r","o",
       "s","e","r","v","i","c","e","s"," ","a","n","d"," ","s","e","r","v",
       "e","r","l","e","s","s"," ","a","r","c","h","i","t","e","c","t","u",
       "r","e","\n"," "," "," "," ","-"," ","D","a","t","a","b","a","s","e",
       " ","d","e","s","i","g","n"," ","a","n","d"," ","o","p","t","i","m",
       "i","z","a","t","i","o","n","\n"," "," "," "," ","-"," ","S","e","c",
       "u","r","i","t","y"," ","a","n","d"," ","c","o","m","p","l","i","a",
       "n","c","e"," ","i","n"," ","c","l","o","u","d","\n"," "," "," "," ",
       "-"," ","C","o","s","t"," ","o","p","t","i","m","i","z","a","t","i",
       "o","n"," ","a","n","d"," ","r","e","s","o","u","r","c","e"," ","m",
       "a","n","a","g","e","m","e","n","t","\n"," "," "," "," ","-"," ","H",
       "i","g","h"," ","a","v","a","i","l","a","b","i","l","i","t","y"," ",
       "a","n","d"," ","d","i","s","a","s","t","e","r"," ","r","e","c","o",
       "v","e","r","y">>,
   keywords |-> <<
     <<"c","l","o","u","d">>,
     <<"A","W","S">>,
     <<"A","z","u","r","e">>,
     <<"G","C","P">>,
     <<"i","n","f","r","a","s","t","r","u","c","t","u","r","e">>,
     <<"m","i","g","r","a","t","i","o","n">>,
     <<"m","i","c","r","o","s","e","r","v","i","c","e","s">>,
     <<"s","e","r","v","e","r","l","e","s","s">> >>],
  \* exp-4: "Business Strategy & Growth"
  [id |-> "exp-4", category |-> "expertise",
   title |->
     <<"B","u","s","i","n","e","s","s"," ","S","t","r","a","t","e","g","y",
       " ","&"," ","G","r","o","w","t","h">>,
   content |->
     <<"D","e","v","e","l","o","p"," ","w","i","n","n","i","n","g"," ","s",
       "t","r","a","t","e","g","i","e","s"," ","a","n","d"," ","a","c","c",
       "e","l","e","r","a","t","e"," ","g","r","o","w","t","h",":","\n"," ",
       " "," "," ","-"," ","M","a","r","k","e","t"," ","a","n","a","l","y",
       "s","i","s"," ","a","n","d"," ","c","o","m","p","e","t","i","t","i",
       "v","e"," ","p","o","s","i","t","i","o","n","i","n","g","\n"," "," ",
       " "," ","-"," ","B","u","s","i","n","e","s","s"," ","m","o","d","e",
       "l"," ","i","n","n","o","v","a","t","i","o","n","\n"," "," "," "," ",
       "-"," ","G","o","-","t","o","-","m","a","r","k","e","t"," ","s","t",
       "r","a","t","e","g","y","\n"," "," "," "," ","-"," ","R","e","v","e",
       "n","u","e"," ","o","p","t","i","m","i","z","a","t","i","o","n","\n",
       " "," "," "," ","-"," ","S","c","a","l","i","n","g"," ","o","p","e",
       "r","a","t","i","o","n","s"," ","e","f","f","i","c","i","e","n","t",
       "l","y","\n"," "," "," "," ","-"," ","S","t","a","k","e","h","o","l",
       "d","e","r"," ","a","l","i","g","n","m","e","n","t","\n"," "," "," ",
       " ","-"," ","K","P","I"," ","d","e","f","i","n","i","t","i","o","n",
       " ","a","n","d"," ","t","r","a","c","k","i","n","g">>,
   keywords |-> <<
     <<"s","t","r","a","t","e","g","y">>,
     <<"g","r","o","w","t","h">>,
     <<"b","u","s","i","n","e","s","s"," ","m","o","d","e","l">>,
     <<"m","a","r","k","e","t">>,
     <<"r","e","v","e","n","u","e">>,
     <<"s","c","a","l","i","n","g">>,
     <<"g","t","m">> >>],
  \* svc-1: "Strategy Consulting"
  [id |-> "svc-1", category |-> "service",
   title |->
     <<"S","t","r","a","t","e","g","y"," ","C","o","n","s","u","l","t","i",
       "n","g">>,
   content |->
     <<"D","e","v","e","l","o","p"," ","c","o","m","p","r","e","h","e","n",
       "s","i","v","e"," ","s","t","r","a","t","e","g","i","e","s"," ","f",
       "o","r"," ","g","r","o","w","t","h"," ","a","n","d"," ","t","r","a",
       "n","s","f","o","r","m","a","t","i","o","n",":","\n"," "," "," "," ",
       "-"," ","D","u","r","a","t","i","o","n",":"," ","4","-","1","2"," ",
       "w","e","e","k","s","\n"," "," "," "," ","-"," ","D","e","l","i","v",
       "e","r","a","b","l","e","s",":"," ","S","t","r","a","t","e","g","y",
       " ","d","o","c","u","m","e","n","t",","," ","i","m","p","l","e","m",
       "e","n","t","a","t","i","o","n"," ","r","o","a","d","m","a","p",",",
       " ","f","i","n","a","n","c","i","a","l"," ","p","r","o","j","e","c",
       "t","i","o","n","s","\n"," "," "," "," ","-"," ","I","d","e","a","l",
       " ","f","o","r",":"," ","E","n","t","e","r","p","r","i","s","e","s",
       " ","p","l","a","n","n","i","n","g"," ","t","r","a","n","s","f","o",
       "r","m","a","t","i","o","n",","," ","s","t","a","r","t","u","p","s",
       " ","s","e","e","k","i","n","g"," ","d","i","r","e","c","t","i","o",
       "n","\n"," "," "," "," ","-"," ","I","n","c","l","u","d","e","s",":",
       " ","M","a","r","k","e","t"," ","r","e","s","e","a","r","c","h",",",
       " ","c","o","m","p","e","t","i","t","i","v","e"," ","a","n","a","l",
       "y","s","i","s",","," ","s","t","a","k","e","h","o","l","d","e","r",
       " ","i","n","t","e","r","v","i","e","w","s",","," ","s","c","e","n",
       "a","r","i","o"," ","p","l","a","n","n","i","n","g">>,
   keywords |-> <<
     <<"s","t","r","a","t","e","g","y">>,
     <<"c","o","n","s","u","l","t","i","n","g">>,
     <<"p","l","a","n","n","i","n","g">>,
     <<"r","o","a","d","m","a","p">>,
     <<"a","n","a","l","y","s","i","s">> >>],
  \* svc-2: "Technical Audit & Assessment"
  [id |-> "svc-2", category |-> "service",
   title |->
     <<"T","e","c","h","n","i","c","a","l"," ","A","u","d","i","t"," ","&",
       " ","A","s","s","e","s","s","m","e","n","t">>,
   content |->
     <<"C","o","m","p","r","e","h","e","n","s","i","v","e"," ","e","v","a",
       "l","u","a","t","i","o","n"," ","o","f"," ","y","o","u","r"," ","t",
       "e","c","h","n","o","l","o","g","y"," ","s","t","a","c","k",":","\n",
       " "," "," "," ","-"," ","D","u","r","a","t","i","o","n",":"," ","2",
       "-","4"," ","w","e","e","k","s","\n"," "," "," "," ","-"," ","D","e",
       "l","i","v","e","r","a","b","l","e","s",":"," ","A","u","d","i","t",
       " ","r","e","p","o","r","t",","," ","r","i","s","k"," ","a","s","s",
       "e","s","s","m","e","n","t",","," ","i","m","p","r","o","v","e","m",
       "e","n","t"," ","r","e","c","o","m","m","e","n","d","a","t","i","o",
       "n","s","\n"," "," "," "," ","-"," ","C","o","v","e","r","s",":"," ",
       "A","r","c","h","i","t","e","c","t","u","r","e"," ","r","e","v","i",
       "e","w",","," ","s","e","c","u","r","i","t","y"," ","a","s","s","e",
       "s","s","m","e","n","t",","," ","p","e","r","f","o","r","m","a","n",
       "c","e"," ","a","n","a","l","y","s","i","s",","," ","t","e","c","h",
       " ","d","e","b","t"," ","e","v","a","l","u","a","t","i","o","n","\n",
       " "," "," "," ","-"," ","O","u","t","c","o","m","e",":"," ","C","l",
       "e","a","r"," ","u","n","d","e","r","s","t","a","n","d","i","n","g",
       " ","o","f"," ","c","u","r","r","e","n","t"," ","s","t","a","t","e",
       " ","a","n","d"," ","o","p","t","i","m","i","z","a","t","i","o","n",
       " ","o","p","p","o","r","t","u","n","i","t","i","e","s">>,
   keywords |-> <<
     <<"t","e","c","h","n","i","c","a","l"," ","a","u","d","i","t">>,
     <<"a","s","s","e","s","s","m","e","n","t">>,
     <<"c","o","d","e"," ","r","e","v","i","e","w">>,
     <<"s","e","c","u","r","i","t","y">>,
     <<"p","e","r","f","o","r","m","a","n","c","e">> >>],
  \* svc-3: "AI/ML Implementation Support"
  [id |-> "svc-3", category |-> "service",
   title |->
     <<"A","I","/","M","L"," ","I","m","p","l","e","m","e","n","t","a","t",
       "i","o","n"," ","S","u","p","p","o","r","t">>,
   content |->
     <<"E","n","d","-","t","o","-","e","n","d"," ","s","u","p","p","o","r",
       "t"," ","f","o","r"," ","A","I","/","M","L"," ","p","r","o","j","e",
       "c","t","s",":","\n"," "," "," "," ","-"," ","D","u","r","a","t","i",
       "o","n",":"," ","3","-","9"," ","m","o","n","t","h","s"," ","(","d",
       "e","p","e","n","d","i","n","g"," ","o","n"," ","s","c","o","p","e",
       ")","\n"," "," "," "," ","-"," ","I","n","c","l","u","d","e","s",":",
       " ","U","s","e"," ","c","a","s","e"," ","i","d","e","n","t","i","f",
       "i","c","a","t","i","o","n",","," ","d","a","t","a"," ","s","t","r",
       "a","t","e","g","y",","," ","m","o","d","e","l"," ","d","e","v","e",
       "l","o","p","m","e","n","t",","," ","d","e","p","l","o","y","m","e",
       "n","t",","," ","m","o","n","i","t","o","r","i","n","g","\n"," "," ",
       " "," ","-"," ","T","e","a","m"," ","s","u","p","p","o","r","t",":",
       " ","H","e","l","p"," ","b","u","i","l","d"," ","o","r"," ","a","u",
       "g","m","e","n","t"," ","y","o","u","r"," ","d","a","t","a"," ","s",
       "c","i","e","n","c","e"," ","t","e","a","m","\n"," "," "," "," ","-",
       " ","G","o","v","e","r","n","a","n","c","e",":"," ","E","s","t","a",
       "b","l","i","s","h"," ","M","L","O","p","s"," ","p","r","a","c","t",
       "i","c","e","s"," ","a","n","d"," ","m","o","d","e","l"," ","g","o",
       "v","e","r","n","a","n","c","e">>,
   keywords |-> <<
     <<"A","I">>,
     <<"m","a","c","h","i","n","e"," ","l","e","a","r","n","i","n","g">>,
     <<"i","m","p","l","e","m","e","n","t","a","t","i","o","n">>,
     <<"s","u","p","p","o","r","t">>,
     <<"t","e","a","m">> >>],
  \* case-1: "Fortune 500 Cloud Migration"
  [id |-> "case-1", category |-> "case_study",
   title |->
     <<"F","o","r","t","u","n","e"," ","5","0","0"," ","C","l","o","u","d",
       " ","M","i","g","r","a","t","i","o","n">>,
   content |->
     <<"C","l","i","e","n","t",":"," ","L","a","r","g","e"," ","f","i","n",
       "a","n","c","i","a","l"," ","s","e","r","v","i","c","e","s"," ","c",
       "o","m","p","a","n","y","\n"," "," "," "," ","C","h","a","l","l","e",
       "n","g","e",":"," ","L","e","g","a","c","y"," ","o","n","-","p","r",
       "e","m","i","s","e","s"," ","i","n","f","r","a","s","t","r","u","c",
       "t","u","r","e"," ","l","i","m","i","t","i","n","g"," ","g","r","o",
       "w","t","h","\n"," "," "," "," ","S","o","l","u","t","i","o","n",":",
       " ","D","e","s","i","g","n","e","d"," ","a","n","d"," ","e","x","e",
       "c","u","t","e","d"," ","m","u","l","t","i","-","y","e","a","r"," ",
       "c","l","o","u","d"," ","m","i","g","r","a","t","i","o","n"," ","s",
       "t","r","a","t","e","g","y","\n"," "," "," "," ","R","e","s","u","l",
       "t","s",":"," ","4","0","%"," ","r","e","d","u","c","t","i","o","n",
       " ","i","n"," ","i","n","f","r","a","s","t","r","u","c","t","u","r",
       "e"," ","c","o","s","t","s",","," ","6","0","%"," ","f","a","s","t",
       "e","r"," ","d","e","p","l","o","y","m","e","n","t"," ","c","y","c",
       "l","e","s",","," ","i","m","p","r","o","v","e","d"," ","d","i","s",
       "a","s","t","e","r"," ","r","e","c","o","v","e","r","y","\n"," "," ",
       " "," ","D","u","r","a","t","i","o","n",":"," ","1","8"," ","m","o",
       "n","t","h","s"," ","e","n","g","a","g","e","m","e","n","t","\n"," ",
       " "," "," ","K","e","y"," ","L","e","a","r","n","i","n","g",":"," ",
       "P","h","a","s","e","d"," ","a","p","p","r","o","a","c","h"," ","w",
       "i","t","h"," ","s","t","r","o","n","g"," ","c","h","a","n","g","e",
       " ","m","a","n","a","g","e","m","e","n","t"," ","i","s"," ","c","r",
       "i","t","i","c","a","l"," ","f","o","r"," ","l","a","r","g","e"," ",
       "o","r","g","s">>,
   keywords |-> <<
     <<"m","i","g","r","a","t","i","o","n">>,
     <<"c","l","o","u","d">>,
     <<"e","n","t","e","r","p","r","i","s","e">>,
     <<"f","i","n","a","n","c","e">>,
     <<"c","o","s","t"," ","s","a","v","i","n","g","s">> >>],
  \* case-2: "AI-Powered Customer Analytics Platform"
  [id |-> "case-2", category |-> "case_study",
   title |->
     <<"A","I","-","P","o","w","e","r","e","d"," ","C","u","s","t","o","m",
       "e","r"," ","A","n","a","l","y","t","i","c","s"," ","P","l","a","t",
       "f","o","r","m">>,
   content |->
     <<"C","l","i","e","n","t",":"," ","E","-","c","o","m","m","e","r","c",
       "e"," ","s","t","a","r","t","u","p"," ","(","S","e","r","i","e","s",
       " ","A",")","\n"," "," "," "," ","C","h","a","l","l","e","n","g","e",
       ":"," ","N","e","e","d"," ","f","o","r"," ","d","a","t","a","-","d",
       "r","i","v","e","n"," ","c","u","s","t","o","m","e","r"," ","i","n",
       "s","i","g","h","t","s"," ","t","o"," ","c","o","m","p","e","t","e",
       "\n"," "," "," "," ","S","o","l","u","t","i","o","n",":"," ","B","u",
       "i","l","t"," ","M","L"," ","p","i","p","e","l","i","n","e"," ","f",
       "o","r"," ","c","u","s","t","o","m","e","r"," ","s","e","g","m","e",
       "n","t","a","t","i","o","n"," ","a","n","d"," ","c","h","u","r","n",
       " ","p","r","e","d","i","c","t","i","o","n","\n"," "," "," "," ","R",
       "e","s","u","l","t","s",":"," ","2","5","%"," ","i","m","p","r","o",
       "v","e","m","e","n","t"," ","i","n"," ","r","e","t","e","n","t","i",
       "o","n",","," ","3","5","%"," ","i","n","c","r","e","a","s","e"," ",
       "i","n"," ","t","a","r","g","e","t","e","d"," ","r","e","v","e","n",
       "u","e",","," ","3","x"," ","R","O","I","\n"," "," "," "," ","D","u",
       "r","a","t","i","o","n",":"," ","6"," ","m","o","n","t","h","s"," ",
       "t","o"," ","M","V","P",","," ","o","n","g","o","i","n","g"," ","o",
       "p","t","i","m","i","z","a","t","i","o","n","\n"," "," "," "," ","K",
       "e","y"," ","L","e","a","r","n","i","n","g",":"," ","F","o","c","u",
       "s"," ","o","n"," ","b","u","s","i","n","e","s","s"," ","o","u","t",
       "c","o","m","e","s",","," ","n","o","t"," ","j","u","s","t"," ","m",
       "o","d","e","l"," ","a","c","c","u","r","a","c","y">>,
   keywords |-> <<
     <<"A","I">>,
     <<"M","L">>,
     <<"s","t","a","r","t","u","p">>,
     <<"a","n","a","l","y","t","i","c","s">>,
     <<"c","u","s","t","o","m","e","r">>,
     <<"r","e","t","e","n","t","i","o","n">> >>],
  \* faq-1: "What's your typical engagement model?"
  [id |-> "faq-1", category |-> "faq",
   title |->
     <<"W","h","a","t","'","s"," ","y","o","u","r"," ","t","y","p","i","c",
       "a","l"," ","e","n","g","a","g","e","m","e","n","t"," ","m","o","d",
       "e","l","?">>,
   content |->
     <<"I"," ","o","f","f","e","r"," ","f","l","e","x","i","b","l","e"," ",
       "e","n","g","a","g","e","m","e","n","t"," ","m","o","d","e","l","s",
       ":","\n"," "," "," "," ","-"," ","H","o","u","r","l","y"," ","c","o",
       "n","s","u","l","t","i","n","g"," ","f","o","r"," ","s","h","o","r",
       "t","-","t","e","r","m"," ","a","d","v","i","c","e","\n"," "," "," ",
       " ","-"," ","F","i","x","e","d"," ","p","r","o","j","e","c","t"," ",
       "f","e","e","s"," ","f","o","r"," ","d","e","f","i","n","e","d"," ",
       "s","c","o","p","e","s","\n"," "," "," "," ","-"," ","R","e","t","a",
       "i","n","e","r"," ","a","r","r","a","n","g","e","m","e","n","t","s",
       " ","f","o","r"," ","o","n","g","o","i","n","g"," ","s","u","p","p",
       "o","r","t","\n"," "," "," "," ","-"," ","E","q","u","i","t","y"," ",
       "a","r","r","a","n","g","e","m","e","n","t","s"," ","f","o","r"," ",
       "p","r","o","m","i","s","i","n","g"," ","s","t","a","r","t","u","p",
       "s","\n"," "," "," "," ","M","o","s","t"," ","e","n","g","a","g","e",
       "m","e","n","t","s"," ","s","t","a","r","t"," ","w","i","t","h"," ",
       "a","n"," ","i","n","i","t","i","a","l"," ","s","c","o","p","i","n",
       "g"," ","c","a","l","l"," ","t","o"," ","a","l","i","g","n"," ","o",
       "n"," ","o","b","j","e","c","t","i","v","e","s"," ","a","n","d"," ",
       "t","i","m","e","l","i","n","e",".">>,
   keywords |-> <<
     <<"e","n","g","a","g","e","m","e","n","t">>,
     <<"p","r","i","c","i","n","g">>,
     <<"m","o","d","e","l">>,
     <<"h","o","w">>,
     <<"t","e","r","m","s">> >>],
  \* faq-2: "How do you work with distributed teams?"
  [id |-> "faq-2", category |-> "faq",
   title |->
     <<"H","o","w"," ","d","o"," ","y","o","u"," ","w","o","r","k"," ","w",
       "i","t","h"," ","d","i","s","t","r","i","b","u","t","e","d"," ","t",
       "e","a","m","s","?">>,
   content |->
     <<"I","'","m"," ","e","x","p","e","r","i","e","n","c","e","d"," ","w",
       "i","t","h"," ","r","e","m","o","t","e"," ","c","o","l","l","a","b",
       "o","r","a","t","i","o","n",":","\n"," "," "," "," ","-"," ","R","e",
       "g","u","l","a","r"," ","s","y","n","c"," ","m","e","e","t","i","n",
       "g","s"," ","v","i","a"," ","v","i","d","e","o"," ","c","o","n","f",
       "e","r","e","n","c","e","\n"," "," "," "," ","-"," ","A","s","y","n",
       "c","h","r","o","n","o","u","s"," ","d","o","c","u","m","e","n","t",
       "a","t","i","o","n"," ","a","n","d"," ","u","p","d","a","t","e","s",
       "\n"," "," "," "," ","-"," ","D","i","r","e","c","t"," ","S","l","a",
       "c","k","/","e","m","a","i","l"," ","s","u","p","p","o","r","t","\n",
       " "," "," "," ","-"," ","F","l","e","x","i","b","l","e"," ","t","i",
       "m","e","z","o","n","e"," ","a","c","c","o","m","m","o","d","a","t",
       "i","o","n","\n"," "," "," "," ","-"," ","C","a","n"," ","w","o","r",
       "k"," ","f","u","l","l","y"," ","r","e","m","o","t","e"," ","o","r",
       " ","o","n","-","s","i","t","e"," ","d","e","p","e","n","d","i","n",
       "g"," ","o","n"," ","n","e","e","d","s","\n"," "," "," "," ","M","a",
       "n","y"," ","o","f"," ","m","y"," ","r","e","c","e","n","t"," ","e",
       "n","g","a","g","e","m","e","n","t","s"," ","h","a","v","e"," ","b",
       "e","e","n"," ","f","u","l","l","y"," ","r","e","m","o","t","e"," ",
       "w","i","t","h"," ","e","x","c","e","l","l","e","n","t"," ","o","u",
       "t","c","o","m","e","s",".">>,
   keywords |-> <<
     <<"r","e","m","o","t","e">>,
     <<"d","i","s","t","r","i","b","u","t","e","d">>,
     <<"t","e","a","m">>,
     <<"c","o","l","l","a","b","o","r","a","t","i","o","n">>,
     <<"w","o","r","k">> >>],
  \* faq-3: "What industries do you specialize in?"
  [id |-> "faq-3", category |-> "faq",
   title |->
     <<"W","h","a","t"," ","i","n","d","u","s","t","r","i","e","s"," ","d",
       "o"," ","y","o","u"," ","s","p","e","c","i","a","l","i","z","e"," ",
       "i","n","?">>,
   content |->
     <<"I","'","v","e"," ","w","o","r","k","e","d"," ","a","c","r","o","s",
       "s"," ","m","u","l","t","i","p","l","e"," ","s","e","c","t","o","r",
       "s",":","\n"," "," "," "," ","-"," ","F","i","n","a","n","c","i","a",
       "l"," ","S","e","r","v","i","c","e","s"," ","&"," ","F","i","n","T",
       "e","c","h","\n"," "," "," "," ","-"," ","E","-","c","o","m","m","e",
       "r","c","e"," ","&"," ","R","e","t","a","i","l","\n"," "," "," "," ",
       "-"," ","H","e","a","l","t","h","c","a","r","e"," ","&"," ","M","e",
       "d","T","e","c","h","\n"," "," "," "," ","-"," ","S","a","a","S"," ",
       "&"," ","S","o","f","t","w","a","r","e","\n"," "," "," "," ","-"," ",
       "M","a","n","u","f","a","c","t","u","r","i","n","g"," ","&"," ","I",
       "n","d","u","s","t","r","i","a","l","\n"," "," "," "," ","-"," ","M",
       "e","d","i","a"," ","&"," ","E","n","t","e","r","t","a","i","n","m",
       "e","n","t","\n"," "," "," "," ","W","h","i","l","e"," ","I"," ","h",
       "a","v","e"," ","d","e","e","p"," ","e","x","p","e","r","i","e","n",
       "c","e"," ","i","n"," ","t","h","e","s","e"," ","a","r","e","a","s",
       ","," ","m","y"," ","c","o","r","e"," ","m","e","t","h","o","d","o",
       "l","o","g","i","e","s"," ","a","p","p","l","y"," ","a","c","r","o",
       "s","s"," ","i","n","d","u","s","t","r","i","e","s",".">>,
   keywords |-> <<
     <<"i","n","d","u","s","t","r","y">>,
     <<"s","e","c","t","o","r","s">>,
     <<"f","i","n","t","e","c","h">>,
     <<"s","a","a","s">>,
     <<"h","e","a","l","t","h","c","a","r","e">> >>],
  \* proc-1: "Typical Engagement Process"
  [id |-> "proc-1", category |-> "process",
   title |->
     <<"T","y","p","i","c","a","l"," ","E","n","g","a","g","e","m","e","n",
       "t"," ","P","r","o","c","e","s","s">>,
   content |->
     <<"M","y"," ","s","t","a","n","d","a","r","d"," ","a","p","p","r","o",
       "a","c","h"," ","f","o","r"," ","c","o","n","s","u","l","t","i","n",
       "g"," ","e","n","g","a","g","e","m","e","n","t","s",":","\n"," "," ",
       " "," ","1","."," ","D","i","s","c","o","v","e","r","y"," ","C","a",
       "l","l"," ","(","3","0"," ","m","i","n",")",":"," ","U","n","d","e",
       "r","s","t","a","n","d"," ","y","o","u","r"," ","c","h","a","l","l",
       "e","n","g","e"," ","a","n","d"," ","g","o","a","l","s","\n"," "," ",
       " "," ","2","."," ","P","r","o","p","o","s","a","l"," ","&"," ","A",
       "g","r","e","e","m","e","n","t"," ","(","1"," ","w","e","e","k",")",
       ":"," ","D","e","f","i","n","e"," ","s","c","o","p","e",","," ","t",
       "i","m","e","l","i","n","e",","," ","d","e","l","i","v","e","r","a",
       "b","l","e","s",","," ","p","r","i","c","i","n","g","\n"," "," "," ",
       " ","3","."," ","K","i","c","k","-","o","f","f"," ","(","W","e","e",
       "k"," ","1",")",":"," ","D","e","t","a","i","l","e","d"," ","p","l",
       "a","n","n","i","n","g"," ","a","n","d"," ","t","e","a","m"," ","a",
       "l","i","g","n","m","e","n","t","\n"," "," "," "," ","4","."," ","E",
       "x","e","c","u","t","i","o","n"," ","(","W","e","e","k","s"," ","2",
       "-","N",")",":"," ","R","e","g","u","l","a","r"," ","c","h","e","c",
       "k","-","i","n","s",","," ","i","t","e","r","a","t","i","v","e"," ",
       "p","r","o","g","r","e","s","s","\n"," "," "," "," ","5","."," ","D",
       "e","l","i","v","e","r","y"," ","(","F","i","n","a","l"," ","w","e",
       "e","k",")",":"," ","P","r","e","s","e","n","t"," ","f","i","n","d",
       "i","n","g","s",","," ","r","e","c","o","m","m","e","n","d","a","t",
       "i","o","n","s",","," ","h","a","n","d","o","f","f","\n"," "," "," ",
       " ","6","."," ","F","o","l","l","o","w","-","u","p"," ","(","O","p",
       "t","i","o","n","a","l",")",":"," ","O","n","g","o","i","n","g"," ",
       "s","u","p","p","o","r","t"," ","o","r"," ","i","m","p","l","e","m",
       "e","n","t","a","t","i","o","n"," ","a","s","s","i","s","t","a","n",
       "c","e">>,
   keywords |-> <<
     <<"p","r","o","c","e","s","s">>,
     <<"e","n","g","a","g","e","m","e","n","t">>,
     <<"h","o","w"," ","i","t"," ","w","o","r","k","s">>,
     <<"s","t","e","p","s">>,
     <<"t","i","m","e","l","i","n","e">> >>]
>>

\* The order of the module's array when the module is loaded.
LoadedOrder == [i \in 1..Len(knowledgeBase) |-> i]

(***************************************************************************)
(* searchKnowledgeBase(query, limit).                                      *)
(***************************************************************************)
\* String.prototype.split(/\s+/): the pieces between maximal runs of white
\* space; a run at either end leaves an empty piece there.
RECURSIVE SplitFrom(_, _)
SplitFrom(s, piece) ==
    IF s = <<>> THEN <<piece>>
    ELSE IF IsSpace(Head(s)) THEN <<piece>> \o SplitFrom(TrimStart(s), <<>>)
    ELSE SplitFrom(Tail(s), Append(piece, Head(s)))

SplitWhitespace(s) == SplitFrom(s, <<>>)

\* A variant of the filter that lets pieces of two characters through.
LongEnoughTwo(t) == Len(t) > 1

\* The filter on the pieces: t.length > 2.
LongEnough(t) == Len(t) > 2

queryTerms(q) == SelectSeq(SplitWhitespace(ToLowerCase(q)), LongEnough)

\* Variant: the title is compared as it is written, not lowercased.
TitleHitAsWritten(entry, term) == Includes(entry.title, term)

\* What one term adds to an entry's score.
TitleHit(entry, term) == Includes(ToLowerCase(entry.title), term)

KeywordHit(entry, term) ==
    \E k \in 1..Len(entry.keywords) : Includes(ToLowerCase(entry.keywords[k]), term)
ContentHit(entry, term) == Includes(ToLowerCase(entry.content), term)

\* Variant: the keyword bonus is given for every keyword the term is found in.
TermScorePerKeyword(entry, term) ==
    (IF TitleHit(entry, term) THEN 10 ELSE 0)
    + 5 * Cardinality({k \in 1..Len(entry.keywords) :
                         Includes(ToLowerCase(entry.keywords[k]), term)})
    + (IF ContentHit(entry, term) THEN 2 ELSE 0)

TermScore(entry, term) ==
    (IF TitleHit(entry, term) THEN 10 ELSE 0)
    + (IF KeywordHit(entry, term) THEN 5 ELSE 0)
    + (IF ContentHit(entry, term) THEN 2 ELSE 0)

\* queryTerms.forEach over an entry.
RECURSIVE EntryScore(_, _)
EntryScore(entry, terms) ==
    IF terms = <<>> THEN 0
    ELSE TermScore(entry, Head(terms)) + EntryScore(entry, Tail(terms))

\* The module's knowledgeBase array as it is now.
corpus == [i \in 1..Len(kbOrder) |-> knowledgeBase[kbOrder[i]]]

\* knowledgeBase.map(entry => ({ entry, score })).
scored(terms) ==
    [i \in 1..Len(corpus) |->
        [entry |-> corpus[i], score |-> EntryScore(corpus[i], terms)]]

\* The scores of the items, in order.
ScoresOf(items) == [i \in 1..Len(items) |-> items[i].score]

\* Variant: entries of score 0 are kept.
PositiveScoreOrZero(item) == item.score >= 0

\* .filter(item => item.score > 0)
PositiveScore(item) == item.score > 0

\* Array.prototype.sort with (a, b) => b.score - a.score: descending by score,
\* stable, so items of equal score keep their order.
\* Variant: an item goes before the items of equal score already placed.
RECURSIVE InsertBeforeEqual(_, _)
InsertBeforeEqual(item, sorted) ==
    IF sorted = <<>> THEN <<item>>
    ELSE IF Head(sorted).score - item.score <= 0
         THEN <<item>> \o sorted
         ELSE <<Head(sorted)>> \o InsertBeforeEqual(item, Tail(sorted))

RECURSIVE InsertByScore(_, _)
InsertByScore(item, sorted) ==
    IF sorted = <<>> THEN <<item>>
    ELSE IF Head(sorted).score - item.score < 0
         THEN <<item>> \o sorted
         ELSE <<Head(sorted)>> \o InsertByScore(item, Tail(sorted))

RECURSIVE SortByScore(_)
SortByScore(items) ==
    IF items = <<>> THEN <<>>
    ELSE InsertByScore(items[Len(items)],
                       SortByScore(SubSeq(items, 1, Len(items) - 1)))

\* Variant: a slice that keeps the item at position end as well.
Slice0Inclusive(items, end) ==
    SubSeq(items, 1, IF end + 1 > Len(items) THEN Len(items) ELSE end + 1)

\* Array.prototype.slice(0, end).
Slice0(items, end) ==
    LET n == IF end < 0 THEN (IF Len(items) + end < 0 THEN 0 ELSE Len(items) + end)
             ELSE (IF end > Len(items) THEN Len(items) ELSE end)
    IN SubSeq(items, 1, n)

\* Variant: the sort is applied to the module's array itself, which it
\* reorders in place.
RECURSIVE PositionsOf(_)
PositionsOf(entries) ==
    IF entries = <<>> THEN <<>>
    ELSE <<CHOOSE e \in 1..Len(knowledgeBase) : knowledgeBase[e] = Head(entries)>>
         \o PositionsOf(Tail(entries))

CorpusSortedInPlace(q) ==
    LET items == SortByScore(scored(queryTerms(q)))
    IN PositionsOf([i \in 1..Len(items) |-> items[i].entry])

\* What a call leaves in the module's array: map, filter and slice build new
\* arrays, sort reorders the one filter built, and nothing assigns to
\* knowledgeBase or to an entry.
CorpusAfterSearch(q) == kbOrder

searchKnowledgeBase(q, k) ==
    LET items == Slice0(SortByScore(SelectSeq(scored(queryTerms(q)), PositiveScore)),
                        k)
    IN [i \in 1..Len(items) |-> items[i].entry]

(***************************************************************************)
(* The state after Home and useVoiceInput are mounted: the useState and    *)
(* useRef initial values, and Home's mount effect.                         *)
(***************************************************************************)
Mounted ==
    /\ isListening = FALSE
    /\ transcript = <<>>
    /\ error = NoError
    /\ isWaitingForWakeWord = FALSE
    /\ recognitionRef = NoRecognizer
    /\ accumulatedTranscriptRef = <<>>
    /\ silenceTimeoutRef = "null"
    /\ recognizers = [r \in RecognizerIds |-> "none"]
    /\ nResults = 0
    /\ finals = <<>>
    /\ lastEvent = Event("mount", 0)
    /\ silenceStop = NoSilenceStop
    /\ rearmed = FALSE
    /\ transcribed = <<>>
    /\ conversationState = "idle"
    /\ messages = <<>>
    /\ useFallbackRecording = ~speechRecognitionAvailable
    /\ chats = <<>>
    /\ toasts = <<>>
    /\ transcribes = <<>>
    /\ isRecording = FALSE
    /\ recordError = NoError
    /\ mediaRecorderRef = NoRecorder
    /\ recorders = [r \in RecorderIds |-> "none"]
    /\ onstop = [r \in RecorderIds |-> "none"]
    /\ mediaRequests = 0

\* No call of searchKnowledgeBase is under way.
NoSearch ==
    /\ query = <<>>
    /\ limit = MaxLimit
    /\ limitGiven = TRUE
    /\ searched = FALSE
    /\ searchResult = <<>>
    /\ scores = <<>>
    /\ kbOrder = LoadedOrder
    /\ calls = 0
    /\ sameCalls = 0
    /\ sameResults = TRUE
    /\ tokens = <<>>

(***************************************************************************)
(* The auth service's module state when the module has been loaded.        *)
(***************************************************************************)
\* Date.now() when the server starts, in milliseconds.
StartTime == 1000

\* seedTestUser().  The id "user_001" is 1 here and `user_${Date.now()}` is
\* the time, which is above 1.  lastLogin is 0 while it is undefined.
demo_email == <<"d", "e", "m", "o", "@", "e", "x", "a", "m", "p", "l", "e", ".", "c", "o", "m">>
demo123 == <<"d", "e", "m", "o", "1", "2", "3">>
testUser ==
    [id |-> 1, username |-> "demo", email |-> demo_email, password |-> demo123,
     createdAt |-> StartTime, lastLogin |-> 0]

\* The module has been loaded and no function of it has been called.
NoAuthCall ==
    /\ users = [u \in {"demo"} |-> testUser]
    /\ sessions = <<>>
    /\ now = StartTime
    /\ authCalls = 0
    /\ authCall = [name |-> "none"]
    /\ issued = {}
    /\ revoked = {}

\* No call of generateResponseWithModel is under way.
NoModelCall ==
    /\ userMessage = <<>>
    /\ modelId = <<>>
    /\ env = [HF_TOKEN |-> FALSE, GEMINI_API_KEY |-> FALSE, MISTRAL_API_KEY |-> FALSE]
    /\ outcome = [kind |-> "none"]
    /\ promise = [state |-> "none"]

(***************************************************************************)
(* The Home page in a browser.                                             *)
(***************************************************************************)
Init ==
    /\ speechRecognitionAvailable = TRUE
    /\ speechSynthesisAvailable \in BOOLEAN
    /\ Mounted
    /\ NoModelCall
    /\ NoAuthCall
    /\ NoSearch

Next ==
    \/ VoiceButtonClick
    \/ HelpOverlayStart
    \/ HelpOverlayStop
    \/ \E r \in RecognizerIds : RecognitionOnStart(r)
    \/ \E r \in RecognizerIds, ev \in ResultEvents : RecognitionOnResult(r, ev)
    \/ \E r \in RecognizerIds, e \in RecognitionErrors : RecognitionOnError(r, e)
    \/ \E r \in RecognizerIds : RecognitionOnEnd(r)
    \/ SilenceTimeout
    \/ \E i \in ChatIds : ChatOnSuccess(i)
    \/ \E i \in ChatIds : ChatOnError(i)
    \/ \E i \in ChatIds : UtteranceOnStart(i)
    \/ \E i \in ChatIds : UtteranceOnEnd(i)
    \/ \E i \in ChatIds : UtteranceOnError(i)

Spec == Init /\ [][Next]_vars

(***************************************************************************)
(* The Home page when the chat request settles and the events of a queued  *)
(* utterance are delivered.                                                *)
(***************************************************************************)
ChatSettles == \E i \in ChatIds : ChatOnSuccess(i) \/ ChatOnError(i)
PlaybackSettles ==
    \E i \in ChatIds : UtteranceOnStart(i) \/ UtteranceOnEnd(i) \/ UtteranceOnError(i)

(***************************************************************************)
(* The Home page in a browser without SpeechRecognition: push-to-talk with *)
(* the recorder.  The help overlay shows Start at all times there, because *)
(* the recognizer hook never listens.                                      *)
(***************************************************************************)
InitFallback ==
    /\ speechRecognitionAvailable = FALSE
    /\ speechSynthesisAvailable \in BOOLEAN
    /\ Mounted
    /\ NoModelCall
    /\ NoAuthCall
    /\ NoSearch

NextFallback ==
    \/ VoiceButtonClick
    \/ HelpOverlayStart
    \/ GetUserMediaResolves
    \/ \E e \in RecordingErrors : GetUserMediaRejects(e)
    \/ \E r \in RecorderIds : RecorderOnStop(r)
    \/ \E i \in TranscribeIds, text \in Transcriptions : TranscribeOnSuccess(i, text)
    \/ \E i \in TranscribeIds : TranscribeOnError(i)
    \/ \E i \in ChatIds : ChatOnSuccess(i)
    \/ \E i \in ChatIds : ChatOnError(i)
    \/ \E i \in ChatIds : UtteranceOnStart(i)
    \/ \E i \in ChatIds : UtteranceOnEnd(i)
    \/ \E i \in ChatIds : UtteranceOnError(i)

SpecFallback == InitFallback /\ [][NextFallback]_vars

SpecFair == Spec /\ WF_vars(ChatSettles) /\ WF_vars(PlaybackSettles)

(***************************************************************************)
(* The Home page with a user who presses the buttons and does not speak:   *)
(* the recognizers deliver their start, error and end events and no        *)
(* result, so no silence timer is armed.  The chat request settles and the *)
(* events of a queued utterance are delivered.                             *)
(***************************************************************************)
NextChat ==
    \/ VoiceButtonClick
    \/ HelpOverlayStart
    \/ HelpOverlayStop
    \/ \E r \in RecognizerIds : RecognitionOnStart(r)
    \/ \E r \in RecognizerIds, e \in RecognitionErrors : RecognitionOnError(r, e)
    \/ \E r \in RecognizerIds : RecognitionOnEnd(r)
    \/ ChatSettles
    \/ PlaybackSettles

SpecChat ==
    Init /\ [][NextChat]_vars /\ WF_vars(ChatSettles) /\ WF_vars(PlaybackSettles)

(***************************************************************************)
(* The hook on its own: useVoiceInput's exported functions called in any   *)
(* order by the component that mounts it, in a browser with or without the *)
(* recognition facility.  Home's effect on isListening stays in place; its *)
(* handlers and the chat pipeline take no step.                            *)
(***************************************************************************)
CallStartListening ==
    /\ CanStartListening
    /\ startListening
    /\ lastEvent' = Event("startListening", 0)
    /\ silenceStop' = Disturbed(silenceStop)
    /\ UNCHANGED <<rearmed, transcribed, isListening, transcript, silenceTimeoutRef, nResults,
                   platformVars, serverVars, pageVars>>

CallStopListening ==
    /\ stopListening
    /\ lastEvent' = Event("stopListening", 0)
    /\ silenceStop' = Disturbed(silenceStop)
    /\ UNCHANGED <<rearmed, transcribed, transcript, error, accumulatedTranscriptRef, nResults,
                   finals, platformVars, serverVars, pageVars>>

CallResetTranscript ==
    /\ resetTranscript
    /\ lastEvent' = Event("resetTranscript", 0)
    /\ silenceStop' = Disturbed(silenceStop)
    /\ UNCHANGED <<rearmed, transcribed, isListening, error, recognitionRef, silenceTimeoutRef,
                   recognizers, nResults, finals, platformVars, serverVars,
                   pageVars>>

InitHook ==
    /\ speechRecognitionAvailable \in BOOLEAN
    /\ speechSynthesisAvailable = TRUE
    /\ Mounted
    /\ NoModelCall
    /\ NoAuthCall
    /\ NoSearch

NextHook ==
    \/ CallStartListening
    \/ CallStopListening
    \/ CallResetTranscript
    \/ \E r \in RecognizerIds : RecognitionOnStart(r)
    \/ \E r \in RecognizerIds, ev \in ResultEvents : RecognitionOnResult(r, ev)
    \/ \E r \in RecognizerIds, e \in RecognitionErrors : RecognitionOnError(r, e)
    \/ \E r \in RecognizerIds : RecognitionOnEnd(r)
    \/ SilenceTimeout

SpecHook == InitHook /\ [][NextHook]_vars

(***************************************************************************)
(* The search on its own: one call of searchKnowledgeBase with a query of  *)
(* up to MaxQueryWords words joined by single spaces and a limit up to     *)
(* MaxLimit.  The words: a tab (which puts white space at the ends of the  *)
(* query and runs of it inside), a word of two letters, words with         *)
(* capitals, words found in titles, keywords and contents (one of them in  *)
(* two keywords of one entry), and a word found nowhere.                   *)
(***************************************************************************)
QueryWords == {
    <<"d","i","g","i","t","a","l">>,
    <<"A","I">>,
    <<"C","l","o","u","d">>,
    <<"m","i","g","r","a","t","i","o","n">>,
    <<"t","h","e">>,
    <<"z","z","z">>,
    <<"\t">> }

RECURSIVE JoinWords(_)
JoinWords(ws) ==
    IF ws = <<>> THEN <<>>
    ELSE IF Len(ws) = 1 THEN Head(ws)
    ELSE Head(ws) \o <<" ">> \o JoinWords(Tail(ws))

\* The query of the documented example, as typed.
ExampleQuery ==
    <<"c","l","o","u","d"," ","m","i","g","r","a","t","i","o","n">>

Queries ==
    { JoinWords(ws) : ws \in UNION { [1..n -> QueryWords] : n \in 0..MaxQueryWords } }
    \cup {ExampleQuery}

Limits == 0..MaxLimit

\* `limit: number = 3`: the parameter's value when the call passes none.
DefaultLimit == 3

LimitArgument == IF limitGiven THEN limit ELSE DefaultLimit

voiceVars == <<platformVars, hookVars, recognizers, nResults, historyVars,
               lastEvent, pageVars>>

\* The first call with the arguments query and limit.
Search ==
    /\ ~searched
    /\ calls < MaxCalls
    /\ calls' = calls + 1
    /\ searched' = TRUE
    /\ searchResult' = searchKnowledgeBase(query, LimitArgument)
    /\ scores' = ScoresOf(scored(queryTerms(query)))
    /\ tokens' = queryTerms(query)
    /\ kbOrder' = CorpusAfterSearch(query)
    /\ sameCalls' = 1
    /\ UNCHANGED <<query, limit, limitGiven, sameResults, voiceVars, modelVars, authVars>>

\* A later call with the same arguments.
SearchAgain ==
    /\ searched
    /\ calls < MaxCalls
    /\ calls' = calls + 1
    /\ sameCalls' = sameCalls + 1
    /\ searchResult' = searchKnowledgeBase(query, LimitArgument)
    /\ sameResults' = (sameResults /\ searchResult' = searchResult)
    /\ scores' = ScoresOf(scored(queryTerms(query)))
    /\ tokens' = queryTerms(query)
    /\ kbOrder' = CorpusAfterSearch(query)
    /\ UNCHANGED <<query, limit, limitGiven, searched, voiceVars, modelVars, authVars>>

\* A call by another request, with a query of one word, whose result goes
\* to its own caller.
OtherSearch(q) ==
    /\ calls < MaxCalls
    /\ calls' = calls + 1
    /\ kbOrder' = CorpusAfterSearch(q)
    /\ UNCHANGED <<query, limit, limitGiven, searched, searchResult, scores,
                   sameCalls, sameResults, tokens, voiceVars, modelVars, authVars>>

InitSearch ==
    /\ speechRecognitionAvailable = TRUE
    /\ speechSynthesisAvailable = TRUE
    /\ Mounted
    /\ NoModelCall
    /\ NoAuthCall
    /\ query \in Queries
    /\ limitGiven \in BOOLEAN
    /\ limit \in (IF limitGiven THEN Limits ELSE {DefaultLimit})
    /\ searched = FALSE
    /\ searchResult = <<>>
    /\ scores = <<>>
    /\ kbOrder = LoadedOrder
    /\ calls = 0
    /\ sameCalls = 0
    /\ sameResults = TRUE
    /\ tokens = <<>>

NextSearch == Search

SpecSearch == InitSearch /\ [][NextSearch]_vars

(***************************************************************************)
(* The search as the server's routes call it, repeatedly: up to MaxCalls    *)
(* calls with the limit 3, those with the query `query` interleaved with   *)
(* calls by other requests.  A call runs to completion before the next     *)
(* starts (the function is synchronous and Node runs one request handler   *)
(* at a time).                                                             *)
(***************************************************************************)
\* searchKnowledgeBase(body.message, 3)
RoutesLimit == 3

InitCalls ==
    /\ speechRecognitionAvailable = TRUE
    /\ speechSynthesisAvailable = TRUE
    /\ Mounted
    /\ NoModelCall
    /\ NoAuthCall
    /\ query \in Queries
    /\ limitGiven = TRUE
    /\ limit = RoutesLimit
    /\ searched = FALSE
    /\ searchResult = <<>>
    /\ scores = <<>>
    /\ kbOrder = LoadedOrder
    /\ calls = 0
    /\ sameCalls = 0
    /\ sameResults = TRUE
    /\ tokens = <<>>

NextCalls ==
    \/ Search
    \/ SearchAgain
    \/ \E q \in QueryWords : OtherSearch(q)

SpecCalls == InitCalls /\ [][NextCalls]_vars

(***************************************************************************)
(* The model service: one call of generateResponseWithModel.  Strings are  *)
(* sequences of characters.                                                *)
(***************************************************************************)
sampleResponses == <<
    [keywords |-> <<
         <<"h", "e", "l", "l", "o">>,
         <<"h", "i">>,
         <<"h", "e", "y">>,
         <<"g", "r", "e", "e", "t", "i", "n", "g", "s">>>>,
     response |->
         <<"H", "e", "l", "l", "o", "!", " ", "T", "h", "a", "t", "'", "s",
           " ", "a", "n", " ", "i", "n", "t", "e", "r", "e", "s", "t", "i",
           "n", "g", " ", "q", "u", "e", "s", "t", "i", "o", "n", ".", " ",
           "L", "e", "t", " ", "m", "e", " ", "g", "e", "t", " ", "m", "o",
           "r", "e", " ", "i", "n", "f", "o", "r", "m", "a", "t", "i", "o",
           "n", " ", "f", "r", "o", "m", " ", "o", "u", "r", " ", "r", "e",
           "s", "o", "u", "r", "c", "e", "s", " ", "t", "o", " ", "g", "i",
           "v", "e", " ", "y", "o", "u", " ", "t", "h", "e", " ", "b", "e",
           "s", "t", " ", "a", "n", "s", "w", "e", "r", ".">>],
    [keywords |-> <<
         <<"d", "i", "g", "i", "t", "a", "l", " ", "t", "r", "a", "n", "s",
           "f", "o", "r", "m", "a", "t", "i", "o", "n">>,
         <<"m", "o", "d", "e", "r", "n", "i", "z", "e">>,
         <<"l", "e", "g", "a", "c", "y">>>>,
     response |->
         <<"T", "h", "a", "t", "'", "s", " ", "a", "n", " ", "i", "n", "t",
           "e", "r", "e", "s", "t", "i", "n", "g", " ", "q", "u", "e", "s",
           "t", "i", "o", "n", ".", " ", "L", "e", "t", " ", "m", "e", " ",
           "g", "e", "t", " ", "m", "o", "r", "e", " ", "i", "n", "f", "o",
           " ", "f", "r", "o", "m", " ", "w", "e", "b", " ", "a", "n", "d",
           " ", "o", "u", "r", " ", "e", "x", "p", "e", "r", "t", "i", "s",
           "e", " ", "d", "a", "t", "a", "b", "a", "s", "e", ".", " ", "D",
           "i", "g", "i", "t", "a", "l", " ", "t", "r", "a", "n", "s", "f",
           "o", "r", "m", "a", "t", "i", "o", "n", " ", "i", "s", " ", "c",
           "r", "u", "c", "i", "a", "l", " ", "f", "o", "r", " ", "m", "o",
           "d", "e", "r", "n", " ", "b", "u", "s", "i", "n", "e", "s", "s",
           "e", "s", ".">>],
    [keywords |-> <<
         <<"a", "i">>,
         <<"m", "a", "c", "h", "i", "n", "e", " ", "l", "e", "a", "r", "n",
           "i", "n", "g">>,
         <<"m", "l">>,
         <<"n", "e", "u", "r", "a", "l">>>>,
     response |->
         <<"T", "h", "a", "t", "'", "s", " ", "a", "n", " ", "i", "n", "t",
           "e", "r", "e", "s", "t", "i", "n", "g", " ", "q", "u", "e", "s",
           "t", "i", "o", "n", ".", " ", "L", "e", "t", " ", "m", "e", " ",
           "s", "e", "a", "r", "c", "h", " ", "o", "u", "r", " ", "k", "n",
           "o", "w", "l", "e", "d", "g", "e", " ", "b", "a", "s", "e", " ",
           "a", "n", "d", " ", "r", "e", "c", "e", "n", "t", " ", "i", "n",
           "d", "u", "s", "t", "r", "y", " ", "d", "a", "t", "a", ".", " ",
           "A", "I", " ", "a", "n", "d", " ", "m", "a", "c", "h", "i", "n",
           "e", " ", "l", "e", "a", "r", "n", "i", "n", "g", " ", "a", "r",
           "e", " ", "t", "r", "a", "n", "s", "f", "o", "r", "m", "a", "t",
           "i", "v", "e", " ", "t", "e", "c", "h", "n", "o", "l", "o", "g",
           "i", "e", "s", ".">>],
    [keywords |-> <<
         <<"c", "l", "o", "u", "d">>,
         <<"a", "w", "s">>,
         <<"a", "z", "u", "r", "e">>,
         <<"g", "c", "p">>,
         <<"m", "i", "g", "r", "a", "t", "i", "o", "n">>>>,
     response |->
         <<"T", "h", "a", "t", "'", "s", " ", "a", "n", " ", "i", "n", "t",
           "e", "r", "e", "s", "t", "i", "n", "g", " ", "q", "u", "e", "s",
           "t", "i", "o", "n", ".", " ", "L", "e", "t", " ", "m", "e", " ",
           "g", "e", "t", " ", "m", "o", "r", "e", " ", "d", "e", "t", "a",
           "i", "l", "s", " ", "f", "r", "o", "m", " ", "o", "u", "r", " ",
           "c", "l", "o", "u", "d", " ", "a", "r", "c", "h", "i", "t", "e",
           "c", "t", "u", "r", "e", " ", "d", "a", "t", "a", "b", "a", "s",
           "e", ".", " ", "C", "l", "o", "u", "d", " ", "i", "n", "f", "r",
           "a", "s", "t", "r", "u", "c", "t", "u", "r", "e", " ", "i", "s",
           " ", "e", "s", "s", "e", "n", "t", "i", "a", "l", " ", "t", "o",
           "d", "a", "y", ".">>],
    [keywords |-> <<
         <<"s", "t", "r", "a", "t", "e", "g", "y">>,
         <<"b", "u", "s", "i", "n", "e", "s", "s">>,
         <<"g", "r", "o", "w", "t", "h">>,
         <<"s", "c", "a", "l", "i", "n", "g">>>>,
     response |->
         <<"T", "h", "a", "t", "'", "s", " ", "a", "n", " ", "i", "n", "t",
           "e", "r", "e", "s", "t", "i", "n", "g", " ", "q", "u", "e", "s",
           "t", "i", "o", "n", ".", " ", "L", "e", "t", " ", "m", "e", " ",
           "a", "n", "a", "l", "y", "z", "e", " ", "t", "h", "a", "t", " ",
           "w", "i", "t", "h", " ", "o", "u", "r", " ", "s", "t", "r", "a",
           "t", "e", "g", "i", "c", " ", "i", "n", "s", "i", "g", "h", "t",
           "s", ".", " ", "B", "u", "i", "l", "d", "i", "n", "g", " ", "a",
           " ", "s", "c", "a", "l", "a", "b", "l", "e", " ", "b", "u", "s",
           "i", "n", "e", "s", "s", " ", "s", "t", "r", "a", "t", "e", "g",
           "y", " ", "i", "s", " ", "c", "r", "i", "t", "i", "c", "a", "l",
           ".">>],
    [keywords |-> <<
         <<"c", "o", "s", "t">>,
         <<"p", "r", "i", "c", "i", "n", "g">>,
         <<"r", "a", "t", "e">>,
         <<"f", "e", "e">>,
         <<"b", "u", "d", "g", "e", "t">>>>,
     response |->
         <<"T", "h", "a", "t", "'", "s", " ", "a", "n", " ", "i", "n", "t",
           "e", "r", "e", "s", "t", "i", "n", "g", " ", "q", "u", "e", "s",
           "t", "i", "o", "n", ".", " ", "L", "e", "t", " ", "m", "e", " ",
           "g", "e", "t", " ", "t", "h", "e", " ", "c", "u", "r", "r", "e",
           "n", "t", " ", "i", "n", "f", "o", "r", "m", "a", "t", "i", "o",
           "n", ".", " ", "O", "u", "r", " ", "e", "n", "g", "a", "g", "e",
           "m", "e", "n", "t", " ", "m", "o", "d", "e", "l", "s", " ", "a",
           "r", "e", " ", "f", "l", "e", "x", "i", "b", "l", "e", " ", "a",
           "n", "d", " ", "t", "a", "i", "l", "o", "r", "e", "d", " ", "t",
           "o", " ", "y", "o", "u", "r", " ", "n", "e", "e", "d", "s", ".">>],
    [keywords |-> <<
         <<"p", "r", "o", "j", "e", "c", "t">>,
         <<"c", "a", "s", "e", " ", "s", "t", "u", "d", "y">>,
         <<"p", "o", "r", "t", "f", "o", "l", "i", "o">>,
         <<"e", "x", "p", "e", "r", "i", "e", "n", "c", "e">>>>,
     response |->
         <<"T", "h", "a", "t", "'", "s", " ", "a", "n", " ", "i", "n", "t",
           "e", "r", "e", "s", "t", "i", "n", "g", " ", "q", "u", "e", "s",
           "t", "i", "o", "n", ".", " ", "L", "e", "t", " ", "m", "e", " ",
           "p", "u", "l", "l", " ", "u", "p", " ", "o", "u", "r", " ", "c",
           "a", "s", "e", " ", "s", "t", "u", "d", "y", " ", "l", "i", "b",
           "r", "a", "r", "y", ".", " ", "W", "e", " ", "h", "a", "v", "e",
           " ", "e", "x", "t", "e", "n", "s", "i", "v", "e", " ", "e", "x",
           "p", "e", "r", "i", "e", "n", "c", "e", " ", "a", "c", "r", "o",
           "s", "s", " ", "m", "u", "l", "t", "i", "p", "l", "e", " ", "i",
           "n", "d", "u", "s", "t", "r", "i", "e", "s", ".">>],
    [keywords |-> <<
         <<"t", "i", "m", "e", "l", "i", "n", "e">>,
         <<"d", "u", "r", "a", "t", "i", "o", "n">>,
         <<"h", "o", "w", " ", "l", "o", "n", "g">>,
         <<"w", "h", "e", "n">>>>,
     response |->
         <<"T", "h", "a", "t", "'", "s", " ", "a", "n", " ", "i", "n", "t",
           "e", "r", "e", "s", "t", "i", "n", "g", " ", "q", "u", "e", "s",
           "t", "i", "o", "n", ".", " ", "L", "e", "t", " ", "m", "e", " ",
           "g", "a", "t", "h", "e", "r", " ", "t", "h", "e", " ", "r", "e",
           "l", "e", "v", "a", "n", "t", " ", "d", "e", "t", "a", "i", "l",
           "s", ".", " ", "P", "r", "o", "j", "e", "c", "t", " ", "t", "i",
           "m", "e", "l", "i", "n", "e", "s", " ", "v", "a", "r", "y", " ",
           "b", "a", "s", "e", "d", " ", "o", "n", " ", "s", "c", "o", "p",
           "e", " ", "a", "n", "d", " ", "c", "o", "m", "p", "l", "e", "x",
           "i", "t", "y", ".">>],
    [keywords |-> <<
         <<"t", "e", "a", "m">>,
         <<"p", "r", "o", "c", "e", "s", "s">>,
         <<"m", "e", "t", "h", "o", "d">>,
         <<"a", "p", "p", "r", "o", "a", "c", "h">>>>,
     response |->
         <<"T", "h", "a", "t", "'", "s", " ", "a", "n", " ", "i", "n", "t",
           "e", "r", "e", "s", "t", "i", "n", "g", " ", "q", "u", "e", "s",
           "t", "i", "o", "n", ".", " ", "L", "e", "t", " ", "m", "e", " ",
           "s", "h", "a", "r", "e", " ", "o", "u", "r", " ", "m", "e", "t",
           "h", "o", "d", "o", "l", "o", "g", "y", " ", "a", "n", "d", " ",
           "t", "e", "a", "m", " ", "s", "t", "r", "u", "c", "t", "u", "r",
           "e", " ", "d", "e", "t", "a", "i", "l", "s", " ", "f", "r", "o",
           "m", " ", "o", "u", "r", " ", "d", "o", "c", "u", "m", "e", "n",
           "t", "a", "t", "i", "o", "n", ".">>],
    [keywords |-> <<
         <<"c", "o", "n", "t", "a", "c", "t">>,
         <<"r", "e", "a", "c", "h">>,
         <<"c", "o", "n", "n", "e", "c", "t">>,
         <<"e", "m", "a", "i", "l">>,
         <<"p", "h", "o", "n", "e">>>>,
     response |->
         <<"T", "h", "a", "t", "'", "s", " ", "a", "n", " ", "i", "n", "t",
           "e", "r", "e", "s", "t", "i", "n", "g", " ", "q", "u", "e", "s",
           "t", "i", "o", "n", ".", " ", "L", "e", "t", " ", "m", "e", " ",
           "g", "e", "t", " ", "o", "u", "r", " ", "c", "o", "n", "t", "a",
           "c", "t", " ", "i", "n", "f", "o", "r", "m", "a", "t", "i", "o",
           "n", " ", "f", "o", "r", " ", "y", "o", "u", ".", " ", "W", "e",
           "'", "r", "e", " ", "a", "v", "a", "i", "l", "a", "b", "l", "e",
           " ", "t", "h", "r", "o", "u", "g", "h", " ", "m", "u", "l", "t",
           "i", "p", "l", "e", " ", "c", "h", "a", "n", "n", "e", "l", "s",
           ".">>]
    >>

fallbackResponses == <<
    <<"T", "h", "a", "t", "'", "s", " ", "a", "n", " ", "i", "n", "t", "e",
      "r", "e", "s", "t", "i", "n", "g", " ", "q", "u", "e", "s", "t", "i",
      "o", "n", ".", " ", "L", "e", "t", " ", "m", "e", " ", "g", "e", "t",
      " ", "m", "o", "r", "e", " ", "i", "n", "f", "o", "r", "m", "a", "t",
      "i", "o", "n", " ", "f", "r", "o", "m", " ", "o", "u", "r", " ", "r",
      "e", "s", "o", "u", "r", "c", "e", "s", ".">>,
    <<"T", "h", "a", "t", "'", "s", " ", "a", " ", "g", "r", "e", "a", "t",
      " ", "i", "n", "q", "u", "i", "r", "y", ".", " ", "L", "e", "t", " ",
      "m", "e", " ", "s", "e", "a", "r", "c", "h", " ", "t", "h", "r", "o",
      "u", "g", "h", " ", "o", "u", "r", " ", "k", "n", "o", "w", "l", "e",
      "d", "g", "e", " ", "b", "a", "s", "e", " ", "f", "o", "r", " ", "r",
      "e", "l", "e", "v", "a", "n", "t", " ", "d", "e", "t", "a", "i", "l",
      "s", ".">>,
    <<"T", "h", "a", "t", "'", "s", " ", "s", "o", "m", "e", "t", "h", "i",
      "n", "g", " ", "I", " ", "s", "h", "o", "u", "l", "d", " ", "r", "e",
      "s", "e", "a", "r", "c", "h", " ", "m", "o", "r", "e", " ", "t", "h",
      "o", "r", "o", "u", "g", "h", "l", "y", ".", " ", "L", "e", "t", " ",
      "m", "e", " ", "g", "e", "t", " ", "t", "h", "e", " ", "l", "a", "t",
      "e", "s", "t", " ", "i", "n", "f", "o", "r", "m", "a", "t", "i", "o",
      "n", ".">>,
    <<"T", "h", "a", "t", "'", "s", " ", "a", " ", "t", "h", "o", "u", "g",
      "h", "t", "f", "u", "l", " ", "q", "u", "e", "s", "t", "i", "o", "n",
      ".", " ", "L", "e", "t", " ", "m", "e", " ", "g", "a", "t", "h", "e",
      "r", " ", "m", "o", "r", "e", " ", "d", "a", "t", "a", " ", "t", "o",
      " ", "g", "i", "v", "e", " ", "y", "o", "u", " ", "t", "h", "e", " ",
      "b", "e", "s", "t", " ", "a", "n", "s", "w", "e", "r", ".">>,
    <<"T", "h", "a", "t", "'", "s", " ", "d", "e", "f", "i", "n", "i", "t",
      "e", "l", "y", " ", "w", "o", "r", "t", "h", " ", "e", "x", "p", "l",
      "o", "r", "i", "n", "g", ".", " ", "L", "e", "t", " ", "m", "e", " ",
      "p", "u", "l", "l", " ", "u", "p", " ", "t", "h", "e", " ", "r", "e",
      "l", "e", "v", "a", "n", "t", " ", "i", "n", "f", "o", "r", "m", "a",
      "t", "i", "o", "n", ".">>
    >>

\* String.prototype.startsWith
StartsWith(s, prefix) ==
    /\ Len(s) >= Len(prefix)
    /\ SubSeq(s, 1, Len(prefix)) = prefix

\* The samples one of whose keywords the lowercased message includes.
MatchingSamples(message) ==
    { k \in 1..Len(sampleResponses) :
        \E j \in 1..Len(sampleResponses[k].keywords) :
            Includes(ToLowerCase(message), sampleResponses[k].keywords[j]) }

\* getMockResponse: the response of the first matching sample; when none
\* matches, fallbackResponses[Math.floor(Math.random() * length)], here the
\* entry `random`.
getMockResponse(message, random) ==
    IF MatchingSamples(message) # {}
    THEN sampleResponses[CHOOSE k \in MatchingSamples(message) :
                            \A j \in MatchingSamples(message) : k <= j].response
    ELSE fallbackResponses[random]

\* What a provider function does: it returns a string or it throws.
Returned(text) == [threw |-> FALSE, value |-> text]
Thrown == [threw |-> TRUE]

\* The keys of the modelMap of generateViaOllama and of generateViaHuggingFace.
OllamaModelMap == {
    <<"o", "l", "l", "a", "m", "a", "-", "l", "l", "a", "m", "a", "2">>,
    <<"o", "l", "l", "a", "m", "a", "-", "m", "i", "s", "t", "r", "a", "l">>,
    <<"o", "l", "l", "a", "m", "a", "-", "n", "e", "u", "r", "a", "l", "-",
      "c", "h", "a", "t">>,
    <<"o", "l", "l", "a", "m", "a", "-", "d", "o", "l", "p", "h", "i", "n",
      "-", "m", "i", "x", "t", "r", "a", "l">> }

HuggingFaceModelMap == {
    <<"h", "f", "-", "m", "i", "s", "t", "r", "a", "l", "-", "7", "b">>,
    <<"h", "f", "-", "z", "e", "p", "h", "y", "r", "-", "7", "b">> }

\* The ids of availableModels.
gemini_pro == <<"g", "e", "m", "i", "n", "i", "-", "p", "r", "o">>
mistral_instruct_1 == <<"m", "i", "s", "t", "r", "a", "l", "-", "i", "n", "s", "t", "r", "u",
      "c", "t", "-", "1">>
mock == <<"m", "o", "c", "k">>
availableModels ==
    OllamaModelMap \cup HuggingFaceModelMap \cup {gemini_pro, mistral_instruct_1, mock}

\* getModelById(id) is defined.
getModelById(id) == id \in availableModels

\* What the provider's endpoint does with the request: the fetch (or the
\* SDK call) rejects, the response is not ok, or the response is ok and
\* carries a text, which may be missing or empty (<<>>).
ProviderTexts == { <<>>, <<" ">>, <<" ", "S", "u", "r", "e", ".", " ">> }
Outcomes ==
    { [kind |-> "rejects"], [kind |-> "httpError"] }
        \cup { [kind |-> "ok", text |-> t] : t \in ProviderTexts }

NoResponseFromOllama == <<"N", "o", " ", "r", "e", "s", "p", "o", "n", "s", "e", " ", "f", "r",
      "o", "m", " ", "O", "l", "l", "a", "m", "a">>
NoResponse == <<"N", "o", " ", "r", "e", "s", "p", "o", "n", "s", "e">>

\* generateViaOllama: an id outside the map throws; a rejected fetch and a
\* response that is not ok throw (caught and thrown again); otherwise
\* data.response?.trim() || "No response from Ollama".
generateViaOllama(id, o) ==
    IF id \notin OllamaModelMap THEN Thrown
    ELSE IF o.kind # "ok" THEN Thrown
    ELSE IF Trim(o.text) # <<>> THEN Returned(Trim(o.text))
    ELSE Returned(NoResponseFromOllama)

\* generateViaHuggingFace without the test of HF_TOKEN.
generateViaHuggingFaceNoToken(id, o) ==
    IF id \notin HuggingFaceModelMap THEN Thrown
    ELSE IF o.kind # "ok" THEN Thrown
    ELSE IF Trim(o.text) # <<>> THEN Returned(Trim(o.text))
    ELSE Returned(NoResponse)

\* generateViaHuggingFace: an id outside the map and a missing HF_TOKEN
\* throw; a failed hf.chatCompletion throws; otherwise
\* content?.trim() || "No response".
generateViaHuggingFace(id, o) ==
    IF id \notin HuggingFaceModelMap THEN Thrown
    ELSE IF ~env.HF_TOKEN THEN Thrown
    ELSE IF o.kind # "ok" THEN Thrown
    ELSE IF Trim(o.text) # <<>> THEN Returned(Trim(o.text))
    ELSE Returned(NoResponse)

\* generateViaGemini: a missing GEMINI_API_KEY, an id without a model
\* configuration, a rejected fetch, a response that is not ok and a
\* response without text throw; otherwise text.trim().
generateViaGemini(id, o) ==
    IF ~env.GEMINI_API_KEY THEN Thrown
    ELSE IF ~getModelById(id) THEN Thrown
    ELSE IF o.kind # "ok" THEN Thrown
    ELSE IF o.text = <<>> THEN Thrown
    ELSE Returned(Trim(o.text))

\* generateViaMistral: as generateViaGemini, with MISTRAL_API_KEY.
generateViaMistral(id, o) ==
    IF ~env.MISTRAL_API_KEY THEN Thrown
    ELSE IF ~getModelById(id) THEN Thrown
    ELSE IF o.kind # "ok" THEN Thrown
    ELSE IF o.text = <<>> THEN Thrown
    ELSE Returned(Trim(o.text))

\* try { return await provider } catch { return getMockResponse(message) }
OrMock(result, message, random) ==
    IF result.threw THEN Returned(getMockResponse(message, random)) ELSE result

\* The body of the outer try of generateResponseWithModel.
GenerateBody(message, id, o, random) ==
    IF id = mock THEN Returned(getMockResponse(message, random))
    ELSE IF StartsWith(id, <<"o", "l", "l", "a", "m", "a", "-">>)
        THEN OrMock(generateViaOllama(id, o), message, random)
    ELSE IF StartsWith(id, <<"h", "f", "-">>)
        THEN OrMock(generateViaHuggingFace(id, o), message, random)
    ELSE IF StartsWith(id, <<"g", "e", "m", "i", "n", "i", "-">>)
        THEN OrMock(generateViaGemini(id, o), message, random)
    ELSE IF StartsWith(id, <<"m", "i", "s", "t", "r", "a", "l", "-">>)
        THEN IF ~env.MISTRAL_API_KEY
             THEN Returned(getMockResponse(message, random))
             ELSE OrMock(generateViaMistral(id, o), message, random)
    ELSE Returned(getMockResponse(message, random))

\* generateResponseWithModel: the promise it returns, settled.  What the
\* body throws the outer catch answers with getMockResponse, and what that
\* throws rejects the promise.
generateResponseWithModel(message, id, o, random) ==
    LET body == GenerateBody(message, id, o, random)
        final == OrMock(body, message, random)
    IN IF final.threw
       THEN [state |-> "rejected"]
       ELSE [state |-> "fulfilled", value |-> final.value]

\* The call settles.
GenerateResponse ==
    /\ promise.state = "none"
    /\ \E random \in 1..Len(fallbackResponses) :
           promise' = generateResponseWithModel(userMessage, modelId, outcome, random)
    /\ UNCHANGED <<userMessage, modelId, env, outcome, voiceVars, searchVars, authVars>>

\* The messages and the model ids of the calls: the ids of availableModels,
\* an unknown id of each provider's prefix and one of no provider.
ModelMessages == {
    <<>>,
    <<"H", "i">>,
    <<"T", "h", "i", "s">>,
    <<"A", "I", " ", "c", "o", "s", "t">>,
    <<"o", "k">> }
ModelIds == availableModels \cup {
    <<"o", "l", "l", "a", "m", "a", "-", "p", "h", "i">>,
    <<"h", "f", "-", "g", "p", "t", "2">>,
    <<"g", "e", "m", "i", "n", "i", "-", "u", "l", "t", "r", "a">>,
    <<"m", "i", "s", "t", "r", "a", "l", "-", "l", "a", "r", "g", "e">>,
    <<"g", "p", "t", "-", "4">> }

InitModel ==
    /\ speechRecognitionAvailable = TRUE
    /\ speechSynthesisAvailable = TRUE
    /\ Mounted
    /\ NoSearch
    /\ NoAuthCall
    /\ userMessage \in ModelMessages
    /\ modelId \in ModelIds
    /\ env \in [{"HF_TOKEN", "GEMINI_API_KEY", "MISTRAL_API_KEY"} -> BOOLEAN]
    /\ outcome \in Outcomes
    /\ promise = [state |-> "none"]

NextModel == GenerateResponse

SpecModel == InitModel /\ [][NextModel]_vars

(***************************************************************************)
(* The auth service: loginUser, registerUser, verifyToken and logoutUser   *)
(* called in any order, up to MaxAuthCalls calls, while the clock runs.    *)
(* Each call runs to completion before the next starts.                    *)
(***************************************************************************)
\* 24 * 60 * 60 * 1000
SessionLifetime == 24 * 60 * 60 * 1000

\* Map.prototype.set and Map.prototype.delete
MapSet(m, k, v) == [x \in (DOMAIN m) \cup {k} |-> IF x = k THEN v ELSE m[x]]
MapDelete(m, k) == [x \in (DOMAIN m) \ {k} |-> m[x]]

\* generateToken: Math.random().toString(36).substring(2) followed by
\* Date.now().toString(36), as the pair of the two numbers.
Randoms == 1..MaxRandom
generateToken(random, time) == <<random, time>>

\* The values Math.random can return to generateToken now: two draws within
\* one millisecond are taken to differ.
FreshRandoms == { r \in Randoms : generateToken(r, now) \notin issued }

\* loginUser: the error it returns, "none" when it returns none.
LoginError(request) ==
    IF request.username \notin DOMAIN users THEN "User not found"
    ELSE IF users[request.username].password # request.password
        THEN "Invalid password"
    ELSE "none"

loginUser(request, random) ==
    LET token == generateToken(random, now)
        user == users[request.username]
    IN IF LoginError(request) # "none"
       THEN /\ authCall' = [name |-> "loginUser", at |-> now,
                            result |-> [success |-> FALSE,
                                        error |-> LoginError(request)]]
            /\ UNCHANGED <<users, sessions, issued>>
       ELSE /\ sessions' = MapSet(sessions, token,
                                  [userId |-> user.id,
                                   expiresAt |-> now + SessionLifetime])
            /\ users' = [users EXCEPT ![request.username].lastLogin = now]
            /\ issued' = issued \cup {token}
            /\ authCall' = [name |-> "loginUser", at |-> now,
                            result |-> [success |-> TRUE, token |-> token,
                                        userId |-> user.id]]

\* registerUser without the loop over the stored users' emails.
RegisterErrorEmailUnchecked(request) ==
    IF request.username \in DOMAIN users THEN "Username already exists"
    ELSE IF Len(request.password) < 6
        THEN "Password must be at least 6 characters"
    ELSE IF ~Includes(request.email, <<"@">>) THEN "Invalid email address"
    ELSE "none"

\* registerUser: the error it returns, "none" when it returns none.
RegisterError(request) ==
    IF request.username \in DOMAIN users THEN "Username already exists"
    ELSE IF \E u \in DOMAIN users : users[u].email = request.email
        THEN "Email already registered"
    ELSE IF Len(request.password) < 6
        THEN "Password must be at least 6 characters"
    ELSE IF ~Includes(request.email, <<"@">>) THEN "Invalid email address"
    ELSE "none"

registerUser(request, random) ==
    LET token == generateToken(random, now)
        newUser == [id |-> now, username |-> request.username,
                    email |-> request.email, password |-> request.password,
                    createdAt |-> now, lastLogin |-> 0]
    IN IF RegisterError(request) # "none"
       THEN /\ authCall' = [name |-> "registerUser", request |-> request,
                            at |-> now,
                            result |-> [success |-> FALSE,
                                        error |-> RegisterError(request)]]
            /\ UNCHANGED <<users, sessions, issued>>
       ELSE /\ users' = MapSet(users, request.username, newUser)
            /\ sessions' = MapSet(sessions, token,
                                  [userId |-> newUser.id,
                                   expiresAt |-> now + SessionLifetime])
            /\ issued' = issued \cup {token}
            /\ authCall' = [name |-> "registerUser", request |-> request,
                            at |-> now,
                            result |-> [success |-> TRUE, token |-> token,
                                        userId |-> newUser.id]]

\* verifyToken without sessions.delete(token) for an expired session.
verifyTokenKeepsExpired(token) ==
    /\ UNCHANGED <<users, issued, sessions>>
    /\ IF token \notin DOMAIN sessions
       THEN /\ authCall' = [name |-> "verifyToken", token |-> token, at |-> now,
                            result |-> [found |-> FALSE]]
            /\ UNCHANGED revoked
       ELSE IF sessions[token].expiresAt < now
       THEN /\ revoked' = revoked \cup {token}
            /\ authCall' = [name |-> "verifyToken", token |-> token, at |-> now,
                            result |-> [found |-> FALSE]]
       ELSE /\ authCall' = [name |-> "verifyToken", token |-> token, at |-> now,
                            result |-> [found |-> TRUE,
                                        userId |-> sessions[token].userId]]
            /\ UNCHANGED revoked

\* verifyToken: null (found is FALSE) or { userId }.
verifyToken(token) ==
    /\ UNCHANGED <<users, issued>>
    /\ IF token \notin DOMAIN sessions
       THEN /\ authCall' = [name |-> "verifyToken", token |-> token, at |-> now,
                            result |-> [found |-> FALSE]]
            /\ UNCHANGED <<sessions, revoked>>
       ELSE IF sessions[token].expiresAt < now
       THEN /\ sessions' = MapDelete(sessions, token)
            /\ revoked' = revoked \cup {token}
            /\ authCall' = [name |-> "verifyToken", token |-> token, at |-> now,
                            result |-> [found |-> FALSE]]
       ELSE /\ authCall' = [name |-> "verifyToken", token |-> token, at |-> now,
                            result |-> [found |-> TRUE,
                                        userId |-> sessions[token].userId]]
            /\ UNCHANGED <<sessions, revoked>>

logoutUser(token) ==
    /\ sessions' = MapDelete(sessions, token)
    /\ revoked' = revoked \cup {token}
    /\ authCall' = [name |-> "logoutUser", token |-> token, at |-> now]
    /\ UNCHANGED <<users, issued>>

\* The requests and the tokens of the calls: the seeded user and two other
\* names; the seeded email, another address and a text without "@"; the
\* seeded password (seven characters) and one of five; the tokens
\* issued so far and one that was never issued.
Usernames == { "demo", "ann", "bob" }
Emails == { demo_email, <<"a", "n", "n", "@", "x", ".", "o", "r", "g">>, <<"a", "n", "n">> }
Passwords == { demo123, <<"1", "2", "3", "4", "5">> }
LoginRequests == [username : Usernames, password : Passwords]
RegisterRequests == [username : Usernames, email : Emails, password : Passwords]
ForgedToken == generateToken(0, 0)
Tokens == issued \cup {ForgedToken}

OtherVars == <<voiceVars, searchVars, modelVars>>

CallLoginUser(request, random) ==
    /\ authCalls < MaxAuthCalls
    /\ random \in FreshRandoms
    /\ authCalls' = authCalls + 1
    /\ loginUser(request, random)
    /\ UNCHANGED <<now, revoked, OtherVars>>

CallRegisterUser(request, random) ==
    /\ authCalls < MaxAuthCalls
    /\ random \in FreshRandoms
    /\ authCalls' = authCalls + 1
    /\ registerUser(request, random)
    /\ UNCHANGED <<now, revoked, OtherVars>>

CallVerifyToken(token) ==
    /\ authCalls < MaxAuthCalls
    /\ authCalls' = authCalls + 1
    /\ verifyToken(token)
    /\ UNCHANGED <<now, OtherVars>>

CallLogoutUser(token) ==
    /\ authCalls < MaxAuthCalls
    /\ authCalls' = authCalls + 1
    /\ logoutUser(token)
    /\ UNCHANGED <<now, OtherVars>>

\* The times of the runs: up to MaxDrift milliseconds after the start and
\* after the lifetime of a session that was issued at the start.
Times == { StartTime + k * SessionLifetime + d : k \in 0..1, d \in 0..MaxDrift }

\* Time passes: a millisecond, or the lifetime of a session.
ClockSteps == { 1, SessionLifetime }
ClockAdvances(d) ==
    /\ now + d \in Times
    /\ now' = now + d
    /\ UNCHANGED <<users, sessions, authCalls, authCall, issued, revoked, OtherVars>>

\* The system clock is set back by a millisecond.
ClockSetBack ==
    /\ now - 1 \in Times
    /\ now' = now - 1
    /\ UNCHANGED <<users, sessions, authCalls, authCall, issued, revoked, OtherVars>>

InitAuth ==
    /\ speechRecognitionAvailable = TRUE
    /\ speechSynthesisAvailable = TRUE
    /\ Mounted
    /\ NoSearch
    /\ NoModelCall
    /\ NoAuthCall

NextAuth ==
    \/ \E request \in LoginRequests, random \in Randoms :
           CallLoginUser(request, random)
    \/ \E request \in RegisterRequests, random \in Randoms :
           CallRegisterUser(request, random)
    \/ \E token \in Tokens : CallVerifyToken(token)
    \/ \E token \in Tokens : CallLogoutUser(token)
    \/ \E d \in ClockSteps : ClockAdvances(d)
    \/ ClockSetBack

SpecAuth == InitAuth /\ [][NextAuth]_vars

(***************************************************************************)
(* Claims.                                                                 *)
(***************************************************************************)
\* A final transcript containing the wake word was delivered in this session.
HeardWakeWord == \E i \in 1..Len(finals) : Includes(finals[i], WAKE_WORD)

FirstWakeWord == CHOOSE i \in 1..Len(finals) :
    /\ Includes(finals[i], WAKE_WORD)
    /\ \A j \in 1..(i - 1) : ~Includes(finals[j], WAKE_WORD)

\* Each segment followed by one space, in order.
RECURSIVE Joined(_)
Joined(segments) ==
    IF segments = <<>> THEN <<>>
    ELSE Head(segments) \o <<" ">> \o Joined(Tail(segments))

\* C1 (wake-word gating): as long as no final segment of the session contains
\* the wake word, the accumulator is empty and no silence timer is armed.
C1_WakeWordGating ==
    ~HeardWakeWord =>
        /\ accumulatedTranscriptRef = <<>>
        /\ silenceTimeoutRef # "pending"

\* C2 (wake-word position): while the session listens, once the wake word was
\* heard the accumulator is exactly the final segments that came after the
\* first wake-word segment, each followed by one space.
C2_WakeWordPosition ==
    (isListening /\ HeardWakeWord) =>
        accumulatedTranscriptRef =
            Joined(SubSeq(finals, FirstWakeWord + 1, Len(finals)))

\* C3 (idempotent start): at most one recognizer has been started and neither
\* stopped nor ended, so at most one feeds the accumulator and the timer.
C3_IdempotentStart ==
    Cardinality({r \in RecognizerIds : recognizers[r] \in {"starting", "active"}}) <= 1

\* C4 as stated (silence timeout): when the end event of the recognizer that
\* the silence timer stopped is handled, the hook is not listening and its
\* transcript is the trimmed accumulator as it was when the timer fired.  Read
\* in the claim's favour: only one recognizer was ever created, and no
\* function of the hook was called between the timer and the end event.
C4_SilenceTimeoutAsStated ==
    (/\ lastEvent.name = "onend"
     /\ silenceStop.recognizer # NoRecognizer
     /\ silenceStop.undisturbed
     /\ lastEvent.id = silenceStop.recognizer
     /\ NextRecognizer = 2) =>
        /\ ~isListening
        /\ transcript = Trim(silenceStop.accumulated)

\* C4 as amended (silence timeout): when the silence timer fires, the
\* recognizer held in recognitionRef is stopped, the ref and the timer are
\* cleared and isListening is false; and when that recognizer's end event is
\* handled, isListening is false and the transcript is the trimmed accumulator
\* as it is then.
C4_SilenceTimeout ==
    /\ lastEvent.name = "silenceTimeout" =>
        /\ ~isListening
        /\ recognitionRef = NoRecognizer
        /\ silenceTimeoutRef = "null"
        /\ lastEvent.id # NoRecognizer =>
               recognizers[lastEvent.id] \notin {"starting", "active"}
    /\ (/\ lastEvent.name = "onend"
        /\ silenceStop.recognizer # NoRecognizer
        /\ lastEvent.id = silenceStop.recognizer) =>
           /\ ~isListening
           /\ transcript = Trim(accumulatedTranscriptRef)

\* C4 witness: the timer stopped a capturing recognizer, its end event was
\* handled and a non-empty utterance was finalized.
C4_Witness ==
    /\ lastEvent.name = "onend"
    /\ silenceStop.recognizer # NoRecognizer
    /\ lastEvent.id = silenceStop.recognizer
    /\ silenceStop.accumulated # <<>>
    /\ transcript = Trim(silenceStop.accumulated)
    /\ transcript # <<>>

\* C5 (playback completion): the end or error callback of a playback attempt
\* takes the conversation state from speaking to idle.  Read in the claim's
\* favour: only runs in which every running recognizer is the one the hook
\* holds in recognitionRef (none was left behind by a second start).
C5_PlaybackCompletion ==
    [][(/\ lastEvent'.name \in {"utteranceOnEnd", "utteranceOnError"}
        /\ \A r \in RecognizerIds :
               recognizers[r] \in {"starting", "active"} => r = recognitionRef) =>
           /\ conversationState = "speaking"
           /\ conversationState' = "idle"]_vars

\* C6 (empty utterance): when the user stops a session whose accumulator holds
\* no text, the conversation state becomes idle, no chat request is issued and
\* no message is added.
C6_EmptyUtterance ==
    [][(/\ lastEvent'.name = "handleStopListening"
        /\ Trim(accumulatedTranscriptRef) = <<>>) =>
           /\ conversationState' = "idle"
           /\ chats' = chats
           /\ messages' = messages]_vars

\* C7 (voice session output): when stopping a session issues a chat request,
\* the text handed to it (and added as the user's message) is the trimmed
\* accumulator.
C7_VoiceSessionOutput ==
    [][(/\ lastEvent'.name = "handleStopListening"
        /\ chats' # chats) =>
           messages'[Len(messages')] =
               UserMessage(Trim(accumulatedTranscriptRef))]_vars

\* C8 (recognition runtime error): after the recognizer's error event is
\* handled, the hook's error holds the error string, the hook is not
\* listening and the conversation state is idle.
C8_RecognitionRuntimeError ==
    lastEvent.name = "onerror" =>
        /\ error \in RecognitionErrors
        /\ ~isListening
        /\ conversationState = "idle"

\* C9 (recognition unavailable): in a browser without the facility, a call of
\* startListening leaves the error "Speech recognition is not supported in
\* this browser", and no recognizer exists, the hook is not listening and the
\* conversation state is idle.
C9_RecognitionUnavailable ==
    ~speechRecognitionAvailable =>
        /\ lastEvent.name = "startListening" => error = NotSupportedError
        /\ \A r \in RecognizerIds : recognizers[r] = "none"
        /\ recognitionRef = NoRecognizer
        /\ ~isListening
        /\ conversationState = "idle"

\* C9 witness: startListening was called without the facility.
C9_Witness ==
    /\ ~speechRecognitionAvailable
    /\ lastEvent.name = "startListening"
    /\ error = NotSupportedError

\* A term of the query is found in the entry's title, keywords or content.
MatchesSomeTerm(entry, terms) ==
    \E t \in 1..Len(terms) :
        \/ TitleHit(entry, terms[t])
        \/ KeywordHit(entry, terms[t])
        \/ ContentHit(entry, terms[t])

\* C10 (scorer exclusion): an entry in which no surviving term of the query is
\* found is not in the result, whatever the limit; a query with no surviving
\* term has the empty result.
C10_ScorerExclusion ==
    searched =>
        /\ \A e \in 1..Len(knowledgeBase) :
               ~MatchesSomeTerm(knowledgeBase[e], queryTerms(query)) =>
                   \A i \in 1..Len(searchResult) : searchResult[i] # knowledgeBase[e]
        /\ queryTerms(query) = <<>> => searchResult = <<>>

\* C10 witness: a query with a surviving term returned some entries, fewer
\* than the limit, and left out an entry in which no term is found.
C10_Witness ==
    /\ searched
    /\ queryTerms(query) # <<>>
    /\ searchResult # <<>>
    /\ Len(searchResult) < limit
    /\ \E e \in 1..Len(knowledgeBase) :
           ~MatchesSomeTerm(knowledgeBase[e], queryTerms(query))

\* The positions of the terms for which a hit holds.
TermsWithTitleHit(entry, terms) ==
    {t \in 1..Len(terms) : Includes(ToLowerCase(entry.title), terms[t])}
TermsWithKeywordHit(entry, terms) ==
    {t \in 1..Len(terms) :
        \E k \in 1..Len(entry.keywords) :
            Includes(ToLowerCase(entry.keywords[k]), terms[t])}
TermsWithContentHit(entry, terms) ==
    {t \in 1..Len(terms) : Includes(ToLowerCase(entry.content), terms[t])}

\* C11 (scorer scoring rule): the score of every entry is 10 for each
\* surviving term (repeats counted) found in its lowercased title, plus 5 for
\* each found in at least one lowercased keyword, plus 2 for each found in its
\* lowercased content; so at most 17 per term.
C11_ScoringRule ==
    searched =>
        /\ Len(scores) = Len(knowledgeBase)
        /\ \A e \in 1..Len(knowledgeBase) :
            LET terms == queryTerms(query) IN
            /\ scores[e] =
                   10 * Cardinality(TermsWithTitleHit(knowledgeBase[e], terms))
                   + 5 * Cardinality(TermsWithKeywordHit(knowledgeBase[e], terms))
                   + 2 * Cardinality(TermsWithContentHit(knowledgeBase[e], terms))
            /\ scores[e] <= 17 * Len(terms)

\* C11 witness: a query with one surviving term was scored, and an entry with
\* the term in its title, in two of its keywords and in its content has 17.
C11_Witness ==
    /\ searched
    /\ Len(queryTerms(query)) = 1
    /\ \E e \in 1..Len(knowledgeBase) :
           /\ scores[e] = 17
           /\ Cardinality({k \in 1..Len(knowledgeBase[e].keywords) :
                   Includes(ToLowerCase(knowledgeBase[e].keywords[k]),
                            queryTerms(query)[1])}) >= 2

\* The position in the corpus of a returned entry.
CorpusIndex(entry) ==
    CHOOSE e \in 1..Len(knowledgeBase) : knowledgeBase[e] = entry

\* C12 (scorer ordering): the returned entries are in non-increasing order of
\* score, and returned entries of equal score are in corpus order.
C12_Ordering ==
    searched =>
        \A i \in 1..Len(searchResult), j \in 1..Len(searchResult) :
            i < j =>
                LET a == CorpusIndex(searchResult[i])
                    b == CorpusIndex(searchResult[j])
                IN /\ scores[a] >= scores[b]
                   /\ scores[a] = scores[b] => a < b

\* C12 witness: a result in which two entries have the same score and a
\* third has another, and an entry later in the corpus is ranked before an
\* earlier one.
C12_Witness ==
    /\ searched
    /\ \E i \in 1..Len(searchResult), j \in 1..Len(searchResult) :
           /\ i < j
           /\ scores[CorpusIndex(searchResult[i])] = scores[CorpusIndex(searchResult[j])]
    /\ \E i \in 1..Len(searchResult), j \in 1..Len(searchResult) :
           /\ i < j
           /\ scores[CorpusIndex(searchResult[i])] > scores[CorpusIndex(searchResult[j])]
           /\ CorpusIndex(searchResult[i]) > CorpusIndex(searchResult[j])

\* The entries with a positive score, by their position in the corpus.
Qualifying == {e \in 1..Len(scores) : scores[e] > 0}

\* Entry a of the corpus is sorted before entry b.
RankedBefore(a, b) ==
    \/ scores[a] > scores[b]
    \/ scores[a] = scores[b] /\ a < b

\* The limit of the call: the one passed, or 3 when none is passed.
C13_K == IF limitGiven THEN limit ELSE 3

\* C13 (scorer top-K): the result has min(K, n) entries, n being the number of
\* entries with a positive score; they have a positive score, and each is
\* sorted before every entry with a positive score that was left out.
C13_TopK ==
    searched =>
        LET n == Cardinality(Qualifying)
            returned == {CorpusIndex(searchResult[i]) : i \in 1..Len(searchResult)}
        IN /\ Len(searchResult) = (IF C13_K < n THEN C13_K ELSE n)
           /\ Cardinality(returned) = Len(searchResult)
           /\ returned \subseteq Qualifying
           /\ \A a \in returned, b \in Qualifying \ returned : RankedBefore(a, b)

\* C13 witness: more entries qualified than the limit, and the call passing
\* no limit returned three of them.
C13_Witness ==
    /\ searched
    /\ ~limitGiven
    /\ Cardinality(Qualifying) > 3
    /\ Len(searchResult) = 3

C15_RunStarts(s) ==
    {i \in 1..Len(s) : ~IsSpace(s[i]) /\ (i = 1 \/ IsSpace(s[i - 1]))}
C15_RunEnd(s, i) ==
    CHOOSE j \in i..Len(s) :
        /\ \A k \in i..j : ~IsSpace(s[k])
        /\ (j = Len(s) \/ IsSpace(s[j + 1]))
C15_LongStarts(s) == {i \in C15_RunStarts(s) : C15_RunEnd(s, i) - i + 1 >= 3}

\* The whitespace-separated pieces of at least 3 characters of the lowercased
\* query, in the order of the query.
C15_Tokens(q) ==
    LET s == ToLowerCase(q)
        starts == C15_LongStarts(s)
        nth(n) == CHOOSE i \in starts : Cardinality({x \in starts : x <= i}) = n
    IN [n \in 1..Cardinality(starts) |-> SubSeq(s, nth(n), C15_RunEnd(s, nth(n)))]

C16_Exp3 == CHOOSE e \in 1..Len(knowledgeBase) : knowledgeBase[e].id = "exp-3"

\* The entry matches the terms in its content and neither in its title nor
\* in a keyword.
C16_ContentOnly(entry, terms) ==
    /\ \E t \in 1..Len(terms) : Includes(ToLowerCase(entry.content), terms[t])
    /\ \A t \in 1..Len(terms) :
           /\ ~Includes(ToLowerCase(entry.title), terms[t])
           /\ \A k \in 1..Len(entry.keywords) :
                  ~Includes(ToLowerCase(entry.keywords[k]), terms[t])

\* C16 (scorer example): for the query "cloud migration" the entry titled
\* "Cloud Architecture & Migration", which has the keyword "migration", has a
\* score of at least 25, and every returned entry that matches the terms in
\* its content only comes after it in the result.
C16_Example ==
    (searched /\ query = ExampleQuery) =>
        /\ Includes(knowledgeBase[C16_Exp3].title, <<"M","i","g","r","a","t","i","o","n">>)
        /\ \E k \in 1..Len(knowledgeBase[C16_Exp3].keywords) :
               knowledgeBase[C16_Exp3].keywords[k] = <<"m","i","g","r","a","t","i","o","n">>
        /\ scores[C16_Exp3] >= 25
        /\ \A i \in 1..Len(searchResult) :
               C16_ContentOnly(searchResult[i], tokens) =>
                   \E j \in 1..(i - 1) : searchResult[j] = knowledgeBase[C16_Exp3]

\* C16 witness: the example query was searched with a limit of 3; the entry
\* has 34 and is the first of three returned entries, the last of which has a
\* lower score.
C16_Witness ==
    /\ searched
    /\ query = ExampleQuery
    /\ tokens = <<<<"c","l","o","u","d">>, <<"m","i","g","r","a","t","i","o","n">>>>
    /\ scores[C16_Exp3] = 34
    /\ Len(searchResult) = 3
    /\ searchResult[1] = knowledgeBase[C16_Exp3]
    /\ scores[CorpusIndex(searchResult[3])] < 25

\* C17 (silence timeout hand-off): once the recognizer that the silence timer
\* stopped has ended, with no action of the user since the timer fired, the
\* conversation state is not listening.  Read in the claim's favour: only one
\* recognizer was ever created, so the session is the only one, and the wake
\* word was heard in it, so it is a capturing one.
C17_SilenceHandOff ==
    (/\ silenceStop.recognizer # NoRecognizer
     /\ HeardWakeWord
     /\ silenceStop.undisturbed
     /\ NextRecognizer = 2
     /\ recognizers[silenceStop.recognizer] = "ended") =>
        conversationState # "listening"

\* C18 (no stale timer or recognizer across sessions): a stop by the user
\* leaves no silence timer pending; and a result or end event of a recognizer
\* that was stopped, delivered when the hook holds a later recognizer, leaves
\* the accumulator as it is, arms no timer and does not clear isListening.
C18_NoStaleCallback ==
    [][/\ lastEvent'.name = "handleStopListening" => silenceTimeoutRef' # "pending"
       /\ (/\ lastEvent'.name \in {"onresult", "onend"}
           /\ recognizers[lastEvent'.id] = "stopping"
           /\ recognitionRef \notin {NoRecognizer, lastEvent'.id}) =>
              /\ accumulatedTranscriptRef' = accumulatedTranscriptRef
              /\ (silenceTimeoutRef' = "pending" => silenceTimeoutRef = "pending")
              /\ (isListening => isListening')]_vars

\* C19 (timer reset on every speech event): after every result event of the
\* session's recognizer, final or interim only, the silence timer is pending
\* and was armed while the event was handled.  Read in the claim's favour:
\* only one recognizer was ever created, it is running, and the wake word
\* was heard.
C19_TimerReset ==
    (/\ lastEvent.name = "onresult"
     /\ lastEvent.id = recognitionRef
     /\ recognizers[lastEvent.id] = "active"
     /\ NextRecognizer = 2
     /\ HeardWakeWord) =>
        /\ silenceTimeoutRef = "pending"
        /\ rearmed

\* C20 (interim segments are never accumulated): a step that changes the
\* accumulator either empties it or is a result event that appends the
\* event's final segments, lowercased, each followed by one space; a result
\* event without a final segment leaves the accumulator as it is.
C20_InterimNeverAccumulated ==
    [][LET added == SubSeq(finals', Len(finals) + 1, Len(finals')) IN
       /\ accumulatedTranscriptRef' # accumulatedTranscriptRef =>
              \/ accumulatedTranscriptRef' = <<>>
              \/ /\ lastEvent'.name = "onresult"
                 /\ added # <<>>
                 /\ accumulatedTranscriptRef' =
                        accumulatedTranscriptRef \o Joined(added)
       /\ (lastEvent'.name = "onresult" /\ Len(finals') = Len(finals)) =>
              accumulatedTranscriptRef' = accumulatedTranscriptRef]_vars

\* C20 witness: a result event with interim segments only was handled while
\* the accumulator held text; the text shown is the accumulator followed by
\* the interim segment.
C20_Witness ==
    /\ lastEvent.name = "onresult"
    /\ ~rearmed
    /\ accumulatedTranscriptRef # <<>>
    /\ \E t \in InterimTranscripts :
           transcript = Trim(accumulatedTranscriptRef \o ToLowerCase(t))

\* C21 (wake-word gate lifetime): the gate a result event is classified with
\* is awaiting until a final segment of the session contains the wake word and
\* open from then on.  The gate a handler ends with decides the text it
\* shows: the wake-word prompt when awaiting, the utterance or "Listening..."
\* when open.  Read in the claim's favour: only one recognizer was ever
\* created and the hook holds it.
C21_GateLifetime ==
    (/\ lastEvent.name = "onresult"
     /\ lastEvent.id = recognitionRef
     /\ NextRecognizer = 2) =>
        (transcript = ListeningForWakeText <=> ~HeardWakeWord)

\* The transitions of the conversation state that the claim allows.
C22_Allowed ==
    { <<"idle", "listening">>, <<"listening", "processing">>,
      <<"listening", "idle">>, <<"processing", "speaking">>,
      <<"processing", "idle">>, <<"speaking", "idle">> }

\* C22 (allowed transitions): every step that changes the conversation state
\* takes one of the allowed transitions.  Read in the claim's favour: only
\* steps in which every running recognizer is the one the hook holds in
\* recognitionRef (none was left behind by a second start).
C22_AllowedTransitions ==
    [][(/\ conversationState' # conversationState
        /\ \A r \in RecognizerIds :
               recognizers[r] \in {"starting", "active"} => r = recognitionRef) =>
           <<conversationState, conversationState'>> \in C22_Allowed]_vars

\* C23 as stated (processing always resolves): when the chat request settles,
\* the state becomes speaking if a response arrived and idle, with the error
\* toast shown, if it failed; and a processing state is followed by idle.
C23_ProcessingResolvesAsStated ==
    /\ [][/\ lastEvent'.name = "chatOnSuccess" => conversationState' = "speaking"
          /\ lastEvent'.name = "chatOnError" =>
                 /\ conversationState' = "idle"
                 /\ toasts' = Append(toasts, "AI Response Error")]_vars
    /\ (conversationState = "processing") ~> (conversationState = "idle")

\* C23 as amended: a response makes the state speaking in a browser with
\* speech synthesis; without it the playback resolves at once and the state
\* is idle when the callback is done.  The rest is as stated.
C23_ProcessingResolves ==
    /\ [][/\ lastEvent'.name = "chatOnSuccess" =>
                 conversationState' =
                     (IF speechSynthesisAvailable THEN "speaking" ELSE "idle")
          /\ lastEvent'.name = "chatOnError" =>
                 /\ conversationState' = "idle"
                 /\ toasts' = Append(toasts, "AI Response Error")]_vars
    /\ (conversationState = "processing") ~> (conversationState = "idle")

\* C23 witness: in a browser without speech synthesis the response of a chat
\* request arrived and the state is idle.
C23_Witness ==
    /\ lastEvent.name = "chatOnSuccess"
    /\ ~speechSynthesisAvailable
    /\ chats[lastEvent.id] = "done"
    /\ conversationState = "idle"
    /\ messages[Len(messages)] = AssistantMessage(ResponseText)

\* C24 (push-to-talk fallback): in a browser without the recognition
\* facility the recognizer hook is never started; when the stop event of a
\* recorder is handled after the user stopped it, its recording is sent to
\* the transcription call; a transcription with text is submitted to chat as
\* it is, trimmed, and one without text returns the state to idle, as does a
\* stop without a recorder.
C24_PushToTalk ==
    /\ [](/\ recognitionRef = NoRecognizer
          /\ \A r \in RecognizerIds : recognizers[r] = "none"
          /\ ~isListening
          /\ ~isWaitingForWakeWord)
    /\ [][/\ lastEvent'.name = "recorderOnStop" =>
                 /\ transcribes' = Append(transcribes, "pending")
                 /\ conversationState' = "processing"
          /\ lastEvent'.name = "transcribeOnSuccess" =>
                 IF Trim(transcribed') # <<>>
                 THEN /\ chats' = Append(chats, "pending")
                      /\ messages' = Append(messages, UserMessage(Trim(transcribed')))
                 ELSE /\ conversationState' = "idle"
                      /\ chats' = chats
                      /\ messages' = messages
          /\ (lastEvent'.name = "handleStopListening"
              /\ mediaRecorderRef = NoRecorder) =>
                 conversationState' = "idle"]_vars

\* C25 (no persistence across sessions): when a session starts, that is when
\* startListening has created its recognizer and again when the recognizer's
\* start event is handled, the accumulator is empty and no silence timer is
\* pending.  Read in the claim's favour: every recognizer created before has
\* ended or failed, so no result of an earlier session can still arrive.
C25_NoPersistence ==
    [][/\ (/\ lastEvent'.name = "handleStartListening"
           /\ recognitionRef' # recognitionRef
           /\ \A r \in RecognizerIds :
                  recognizers[r] \in {"none", "closing", "ended"}) =>
              /\ accumulatedTranscriptRef' = <<>>
              /\ silenceTimeoutRef' # "pending"
       /\ lastEvent'.name = "onstart" =>
              /\ accumulatedTranscriptRef' = <<>>
              /\ silenceTimeoutRef' # "pending"]_vars

\* The strings getMockResponse can return for the user message.
MockResponses(message) ==
    { getMockResponse(message, random) : random \in 1..Len(fallbackResponses) }

\* The provider's key is missing, for the providers that take one.
MissingKey ==
    \/ StartsWith(modelId, <<"h", "f", "-">>) /\ ~env.HF_TOKEN
    \/ StartsWith(modelId, <<"g", "e", "m", "i", "n", "i", "-">>)
           /\ ~env.GEMINI_API_KEY
    \/ StartsWith(modelId, <<"m", "i", "s", "t", "r", "a", "l", "-">>)
           /\ ~env.MISTRAL_API_KEY

\* C26: generateResponseWithModel never rejects: for every model id and
\* every provider outcome the promise is fulfilled with a string, and when
\* the provider fails (the request rejects or the response is an HTTP
\* error), the key is missing or the id is unknown, that string is a mock
\* response for the user message.
C26_ModelFallback ==
    promise.state # "none" =>
        /\ promise.state = "fulfilled"
        /\ \A i \in DOMAIN promise.value : promise.value[i] \in STRING
        /\ DOMAIN promise.value = 1..Len(promise.value)
        /\ (\/ outcome.kind \in {"rejects", "httpError"}
            \/ MissingKey
            \/ modelId \notin availableModels) =>
               promise.value \in MockResponses(userMessage)

\* The call for gemini-pro, with the key set, met an HTTP error and was
\* answered with the sample response the message's keyword selects.
C26_Witness ==
    /\ promise.state = "fulfilled"
    /\ modelId = gemini_pro
    /\ env.GEMINI_API_KEY
    /\ outcome.kind = "httpError"
    /\ userMessage = <<"H", "i">>
    /\ promise.value = sampleResponses[1].response

\* C27: whenever the hook's isListening is true the page's conversation
\* state is listening: no state has an active recognizer session while the
\* page shows idle, processing or speaking.
C27_PageHookConsistency ==
    isListening => conversationState = "listening"

\* C28: isWaitingForWakeWord is true only while recognitionRef holds a
\* recognizer; after a call of startListening in a browser without the
\* speech facility, after stopListening, after a recognizer's error or end
\* event and after resetTranscript it is false.
C28_WakeFlagConsistency ==
    [][/\ isWaitingForWakeWord' => recognitionRef' # NoRecognizer
       /\ (lastEvent'.name = "startListening" /\ ~speechRecognitionAvailable) =>
              ~isWaitingForWakeWord'
       /\ lastEvent'.name \in {"stopListening", "onerror", "onend", "resetTranscript"} =>
              ~isWaitingForWakeWord']_vars

\* C29: verifyToken(t) returns a userId only if t was returned by a
\* successful loginUser or registerUser, has not been passed to logoutUser
\* and is not past its expiry, 24 hours after it was issued; once
\* logoutUser(t) has run or verifyToken has found t expired, verifyToken(t)
\* returns null.
C29_TokenLifecycle ==
    authCall.name = "verifyToken" =>
        LET t == authCall.token
        IN /\ authCall.result.found =>
                  /\ t \in issued
                  /\ t \notin revoked
                  /\ ~(t[2] + 24 * 60 * 60 * 1000 < authCall.at)
           /\ t \in revoked => ~authCall.result.found

\* verifyToken returned null for a token that was issued and then logged
\* out or found expired, at a time of the clock within the token's 24 hours.
C29_Witness ==
    /\ authCall.name = "verifyToken"
    /\ authCall.token \in issued
    /\ authCall.token \in revoked
    /\ authCall.at <= authCall.token[2] + 24 * 60 * 60 * 1000
    /\ ~authCall.result.found

\* The sessions of the stored user u.
SessionsOf(ss, u) == { t \in DOMAIN ss : ss[t].userId = u.id }

\* C30: no two stored users share a username or an email; a registerUser
\* call fails exactly for a duplicate username, a duplicate email, a
\* password shorter than 6 or an email without "@", and then leaves users
\* and sessions unchanged; a successful call adds one user, the one of the
\* request, and one session, which is that user's.
C30_RegistrationFrame ==
    /\ [](\A u, v \in DOMAIN users :
             u # v => /\ users[u].username # users[v].username
                      /\ users[u].email # users[v].email)
    /\ [][(authCalls' # authCalls /\ authCall'.name = "registerUser") =>
             LET request == authCall'.request
                 fails == \/ \E u \in DOMAIN users : users[u].username = request.username
                          \/ \E u \in DOMAIN users : users[u].email = request.email
                          \/ Len(request.password) < 6
                          \/ ~Includes(request.email, <<"@">>)
             IN /\ authCall'.result.success <=> ~fails
                /\ fails => users' = users /\ sessions' = sessions
                /\ ~fails =>
                       /\ Cardinality(DOMAIN users') = Cardinality(DOMAIN users) + 1
                       /\ \A u \in DOMAIN users : u \in DOMAIN users' /\ users'[u] = users[u]
                       /\ users'[request.username].username = request.username
                       /\ users'[request.username].email = request.email
                       /\ Cardinality(DOMAIN sessions') = Cardinality(DOMAIN sessions) + 1
                       /\ \A t \in DOMAIN sessions : t \in DOMAIN sessions' /\ sessions'[t] = sessions[t]
                       /\ \A t \in (DOMAIN sessions') \ (DOMAIN sessions) :
                              sessions'[t].userId = users'[request.username].id]_vars

\* After the successful registration of ann a second registration of that
\* name has failed, and the stores hold the seeded user, ann and ann's
\* session.
C30_Witness ==
    /\ authCall.name = "registerUser"
    /\ authCall.request.username = "ann"
    /\ ~authCall.result.success
    /\ authCall.result.error = "Username already exists"
    /\ DOMAIN users = {"demo", "ann"}
    /\ Cardinality(DOMAIN sessions) = 1
    /\ \A t \in DOMAIN sessions : sessions[t].userId = users["ann"].id


====
